---- MODULE Spec2Model ----
(***************************************************************************)
(* The file-upload pipeline of the resource-handler worker                 *)
(* (src/workers/resource-handler/files.js, resources.js): the streaming    *)
(* multipart scanner and file extractor, the content-type sniffer, the     *)
(* upload policy table and the two-store commit with its compensation,     *)
(* together with the symmetric delete paths.                               *)
(*                                                                         *)
(* Representation.  A JavaScript string is a sequence of UTF-16 code       *)
(* units, a Uint8Array a sequence of numbers in 0..255.  The request body  *)
(* is a byte sequence that the stream hands over in chunks of any size.    *)
(* TextDecoder / TextEncoder are modelled by the WHATWG UTF-8 algorithms.  *)
(*                                                                         *)
(* Scale.  The literals the requests carry are abbreviated one for one     *)
(* (see the "wire" section) and the two size constants are scaled down     *)
(* with them, so that bodies of about a hundred bytes exceed the window    *)
(* and the size ceiling exactly as bodies of several kilobytes and         *)
(* megabytes do in the program.                                            *)
(***************************************************************************)
EXTENDS Integers, Sequences, FiniteSets, TLC

(***************************************************************************)
(* Program constants (scaled).                                             *)
(***************************************************************************)
\* const MAX_FILE_SIZE = 2 * 1024 * 1024, scaled: the ceiling on payload bytes.
\* It is kept, as in the program, above the window of the buffer.
MAX_FILE_SIZE == 25
\* const BUFFER_SIZE = 2 * 1024, scaled: the window kept of state.buffer.  It is
\* kept, as in the program, above the length of an ordinary part (header name,
\* blank line, value, boundary).
BUFFER_SIZE == 20
\* the literal 32 of extractAndVerifyFile, scaled: bytes captured for sniffing.
\* It is kept, as in the program, no shorter than the PNG signature verifyMagic
\* compares and below MAX_FILE_SIZE.
MAGIC_LENGTH == 8

(***************************************************************************)
(* JavaScript string primitives.                                           *)
(***************************************************************************)
SetMin(S) == CHOOSE x \in S : \A y \in S : x <= y

\* String.prototype.indexOf(t): first 0-based position of t in s, or -1
indexOf(s, t) ==
  LET hits == {i \in 0..(Len(s) - Len(t)) : SubSeq(s, i + 1, i + Len(t)) = t}
  IN  IF hits = {} THEN -1 ELSE SetMin(hits)

\* s.slice(from) for from >= 0
sliceFrom(s, from) == SubSeq(s, from + 1, Len(s))

\* s.slice(0, to) for to >= 0
sliceTo(s, to) == SubSeq(s, 1, IF to < Len(s) THEN to ELSE Len(s))

\* s.slice(-n) for n > 0: the last n code units
sliceLast(s, n) == IF Len(s) <= n THEN s ELSE SubSeq(s, Len(s) - n + 1, Len(s))

\* s.startsWith(t)
startsWith(s, t) == Len(s) >= Len(t) /\ SubSeq(s, 1, Len(t)) = t

\* ECMAScript WhiteSpace and LineTerminator code units, as String.prototype.trim
\* removes them
WhiteSpace ==
  {9, 10, 11, 12, 13, 32, 160, 5760, 8232, 8233, 8239, 8287, 12288, 65279}
    \cup (8192..8202)

\* String.prototype.trim
trim(s) ==
  LET keep == {i \in 1..Len(s) : s[i] \notin WhiteSpace}
  IN  IF keep = {} THEN <<>>
      ELSE SubSeq(s, SetMin(keep), CHOOSE i \in keep : \A j \in keep : j <= i)

\* The length of the match of /\r?\n\r?\n/ anchored at 1-based position i of s,
\* or 0 when the pattern does not match there.
blankLineAt(s, i) ==
  LET n  == Len(s)
      at(k) == IF k <= n THEN s[k] ELSE -1
      j  == IF at(i) = 13 THEN i + 1 ELSE i      \* after the first \r?
      k  == IF at(j + 1) = 13 THEN j + 2 ELSE j + 1  \* after \n and the second \r?
  IN  IF at(j) = 10 /\ at(k) = 10 THEN k - i + 1 ELSE 0

\* s.match(/\r?\n\r?\n/): the leftmost match as [index, length], index = -1
\* when there is none
matchBlankLine(s) ==
  LET hits == {i \in 1..Len(s) : blankLineAt(s, i) > 0}
  IN  IF hits = {} THEN [index |-> -1, length |-> 0]
      ELSE LET i == SetMin(hits)
           IN  [index |-> i - 1, length |-> blankLineAt(s, i)]

(***************************************************************************)
(* TextDecoder (UTF-8, fatal = false, ignoreBOM = false) and TextEncoder.  *)
(***************************************************************************)
\* The state of a fresh decoder: no sequence in progress, no BOM seen.
NewTextDecoder ==
  [need |-> 0, seen |-> 0, cp |-> 0, lo |-> 128, hi |-> 191, bomSeen |-> FALSE]

\* A code point as UTF-16 code units (a surrogate pair above 0xFFFF)
utf16(cp) ==
  IF cp < 65536 THEN <<cp>>
  ELSE <<55296 + ((cp - 65536) \div 1024), 56320 + ((cp - 65536) % 1024)>>

\* The decoder after a code point is complete, and the code units it adds to
\* the output: a U+FEFF that comes first is dropped
emit(d, cp) ==
  [d   |-> [d EXCEPT !.need = 0, !.seen = 0, !.cp = 0, !.lo = 128, !.hi = 191,
                     !.bomSeen = TRUE],
   out |-> IF ~d.bomSeen /\ cp = 65279 THEN <<>> ELSE utf16(cp)]

\* The WHATWG UTF-8 decoder on a byte that starts a sequence
utf8Lead(d, b) ==
  IF b <= 127 THEN emit(d, b)
  ELSE IF b \in 194..223 THEN
    [d |-> [d EXCEPT !.need = 1, !.cp = b - 192], out |-> <<>>]
  ELSE IF b \in 224..239 THEN
    [d |-> [d EXCEPT !.need = 2, !.cp = b - 224,
                     !.lo = IF b = 224 THEN 160 ELSE 128,
                     !.hi = IF b = 237 THEN 159 ELSE 191], out |-> <<>>]
  ELSE IF b \in 240..244 THEN
    [d |-> [d EXCEPT !.need = 3, !.cp = b - 240,
                     !.lo = IF b = 240 THEN 144 ELSE 128,
                     !.hi = IF b = 244 THEN 143 ELSE 191], out |-> <<>>]
  ELSE emit(d, 65533)

\* The WHATWG UTF-8 decoder on one byte, from decoder state d
utf8Byte(d, b) ==
  IF d.need = 0 THEN utf8Lead(d, b)
  ELSE IF b < d.lo \/ b > d.hi THEN
    \* the sequence is broken: U+FFFD, and the byte is read again
    LET e == emit(d, 65533)
        f == utf8Lead(e.d, b)
    IN  [d |-> f.d, out |-> e.out \o f.out]
  ELSE
    LET cp == d.cp * 64 + (b - 128) IN
    IF d.seen + 1 = d.need THEN emit(d, cp)
    ELSE [d |-> [d EXCEPT !.seen = d.seen + 1, !.cp = cp, !.lo = 128, !.hi = 191],
          out |-> <<>>]

\* The decoder run over bytes[lo..hi], from decoder state d.  Outside a
\* sequence a run of ASCII bytes decodes to itself, one code unit a byte.
RECURSIVE utf8Decode(_, _, _, _)
utf8Decode(bytes, lo, hi, d) ==
  IF lo > hi THEN [d |-> d, out |-> <<>>]
  ELSE IF lo = hi THEN utf8Byte(d, bytes[lo])
  ELSE IF d.need = 0 /\ \A i \in lo..hi : bytes[i] <= 127
    THEN [d |-> [d EXCEPT !.bomSeen = TRUE], out |-> SubSeq(bytes, lo, hi)]
  ELSE LET mid   == (lo + hi) \div 2
           left  == utf8Decode(bytes, lo, mid, d)
           right == utf8Decode(bytes, mid + 1, hi, left.d)
       IN  \* the first half is evaluated before the second half is entered
           IF left.d.need < 0 THEN left
           ELSE [d |-> right.d, out |-> left.out \o right.out]

\* decoder.decode(value, { stream: true }): the text, and the decoder afterwards
decodeStream(d, bytes) == utf8Decode(bytes, 1, Len(bytes), d)

\* new TextDecoder().decode(bytes): a sequence left unfinished yields U+FFFD
decode(bytes) ==
  LET r == utf8Decode(bytes, 1, Len(bytes), NewTextDecoder)
  IN  IF r.d.need = 0 THEN r.out ELSE r.out \o emit(r.d, 65533).out

\* The UTF-8 bytes of one code point
utf8Bytes(cp) ==
  IF cp < 128 THEN <<cp>>
  ELSE IF cp < 2048 THEN <<192 + (cp \div 64), 128 + (cp % 64)>>
  ELSE IF cp < 65536 THEN
    <<224 + (cp \div 4096), 128 + ((cp \div 64) % 64), 128 + (cp % 64)>>
  ELSE
    <<240 + (cp \div 262144), 128 + ((cp \div 4096) % 64),
      128 + ((cp \div 64) % 64), 128 + (cp % 64)>>

\* The bytes TextEncoder writes for the code unit at position i of s: a
\* surrogate pair is one code point, written at its first unit; a lone
\* surrogate is written as U+FFFD
encodeAt(s, i) ==
  LET u      == s[i]
      isHigh(x) == x \in 55296..56319
      isLow(x)  == x \in 56320..57343
  IN  IF isHigh(u) /\ i < Len(s) /\ isLow(s[i + 1])
        THEN utf8Bytes(65536 + (u - 55296) * 1024 + (s[i + 1] - 56320))
      ELSE IF isLow(u) /\ i > 1 /\ isHigh(s[i - 1]) THEN <<>>
      ELSE IF isHigh(u) \/ isLow(u) THEN utf8Bytes(65533)
      ELSE utf8Bytes(u)

RECURSIVE encodeRange(_, _, _)
encodeRange(s, lo, hi) ==
  IF lo > hi THEN <<>>
  ELSE IF lo = hi THEN encodeAt(s, lo)
  ELSE IF \A i \in lo..hi : s[i] <= 127 THEN SubSeq(s, lo, hi)
  ELSE LET mid == (lo + hi) \div 2
       IN  encodeRange(s, lo, mid) \o encodeRange(s, mid + 1, hi)

\* encoder.encode(text)
encode(s) == encodeRange(s, 1, Len(s))

\* concatUint8(a, b)
concatUint8(a, b) == a \o b

(***************************************************************************)
(* The content-type sniffer.                                               *)
(***************************************************************************)
\* The declared content types, as they travel in the content_type field: one
\* letter stands for each literal.
IMAGE_PNG == <<112>>            \* "image/png"
APPLICATION_JSON == <<106>>     \* "application/json"
TEXT_PLAIN == <<116>>           \* "text/plain", a type the sniffer does not know

\* A variant of verifyMagic that takes a PNG signature of any length
verifyMagicAnyLength(contentType, bytes) ==
  IF contentType = IMAGE_PNG THEN
    /\ Len(bytes) >= 4
    /\ SubSeq(bytes, 1, 4) = <<137, 80, 78, 71>>
  ELSE IF contentType = APPLICATION_JSON THEN
    LET text == trim(decode(bytes))
    IN  startsWith(text, <<123>>) \/ startsWith(text, <<91>>)
  ELSE FALSE

\* verifyMagic(contentType, bytes)
verifyMagic(contentType, bytes) ==
  IF contentType = IMAGE_PNG THEN
    /\ Len(bytes) >= 8
    /\ bytes[1] = 137
    /\ bytes[2] = 80
    /\ bytes[3] = 78
    /\ bytes[4] = 71
  ELSE IF contentType = APPLICATION_JSON THEN
    LET text == trim(decode(bytes))
    IN  startsWith(text, <<123>>) \/ startsWith(text, <<91>>)
  ELSE FALSE

(***************************************************************************)
(* The wire: what a request carries.  Every literal is abbreviated by a    *)
(* short code, one for one, so equality of the codes is equality of the    *)
(* literals.                                                               *)
(***************************************************************************)
\* handleUploadFile: boundary = "--" + <token of the content-type header>; the
\* token here is "b"
boundary == <<45, 45, 98>>

CRLF == <<13, 10>>

\* The names of the parts, in the order uploadFile reads them, and the part
\* that carries the file
RESOURCE_UUID == [wire |-> <<114>>, name |-> "resource_uuid"]       \* "r"
CONTENT_TYPE == [wire |-> <<99>>, name |-> "content_type"]          \* "c"
FILE_DIRECTORY == [wire |-> <<102, 100>>, name |-> "file_directory"] \* "fd"
FILE_NAME == [wire |-> <<102, 110>>, name |-> "file_name"]          \* "fn"
FILE == [wire |-> <<102>>, name |-> "file"]                         \* "f"

FieldOrder == <<RESOURCE_UUID, CONTENT_TYPE, FILE_DIRECTORY, FILE_NAME>>

\* const targetHeader = `name="${fieldName}"`
targetHeader(fieldName) == <<110, 97, 109, 101, 61, 34>> \o fieldName.wire \o <<34>>

\* The directories of the policy table
TEXTURES == <<116>>     \* "textures/item/carved_pumpkin"
MODELS == <<109>>       \* "models/item/carved_pumpkin"

\* const RESOURCE_RULES
RESOURCE_RULES ==
  [hat |->
    [allowed_content_types |->
      (IMAGE_PNG :> [allowed_directories |-> {TEXTURES}])
        @@ (APPLICATION_JSON :> [allowed_directories |-> {MODELS}])]]

(***************************************************************************)
(* The two loops of the parser, one iteration at a time.                   *)
(***************************************************************************)
\* Lines 86-101 of getMultipartField: the search of state.buffer for the part
\* named fieldName.  found: the header, its blank line and the next boundary
\* are all in the buffer; value and rest are then the trimmed value and the
\* buffer from the boundary on.
scanField(buffer, fieldName) ==
  LET headerIndex == indexOf(buffer, targetHeader(fieldName))
      afterHeader == sliceFrom(buffer, headerIndex)
      match       == matchBlankLine(afterHeader)
      contentRest == sliceFrom(afterHeader, match.index + match.length)
      boundaryIndex == indexOf(contentRest, boundary)
  IN  IF headerIndex # -1 /\ match.index # -1 /\ boundaryIndex # -1
      THEN [found |-> TRUE,
            value |-> trim(sliceTo(contentRest, boundaryIndex)),
            rest  |-> sliceFrom(contentRest, boundaryIndex)]
      ELSE [found |-> FALSE, value |-> <<>>, rest |-> buffer]

\* A variant of trimToWindow that keeps the whole buffer
trimToWindowKeepingAll(buffer) == buffer

\* Lines 104-107 and 188-191: keep the last BUFFER_SIZE code units
trimToWindow(buffer) ==
  IF Len(buffer) > BUFFER_SIZE THEN sliceLast(buffer, BUFFER_SIZE) ELSE buffer

\* Lines 139-154 of extractAndVerifyFile: where the payload text of this
\* iteration starts.  started is fileStarted after the search.
locateFile(buffer, fileStarted) ==
  IF fileStarted THEN [started |-> TRUE, contentRest |-> buffer]
  ELSE
    LET headerIndex == indexOf(buffer, targetHeader(FILE))
        afterHeader == sliceFrom(buffer, headerIndex)
        match       == matchBlankLine(afterHeader)
    IN  IF headerIndex # -1 /\ match.index # -1
        THEN [started |-> TRUE,
              contentRest |-> sliceFrom(afterHeader, match.index + match.length)]
        ELSE [started |-> FALSE, contentRest |-> <<>>]

\* Lines 159-164: the text recorded in this iteration, up to the boundary when
\* the buffer holds one
chunkTextOf(contentRest) ==
  LET boundaryIndex == indexOf(contentRest, boundary)
  IN  IF boundaryIndex # -1 THEN sliceTo(contentRest, boundaryIndex) ELSE contentRest

\* A variant of captureMagic that appends the whole chunk while the prefix is
\* short
captureMagicWholeChunk(magicBytes, chunkBytes) ==
  IF Len(magicBytes) < MAGIC_LENGTH
  THEN concatUint8(magicBytes, chunkBytes)
  ELSE magicBytes

\* Lines 167-173: the sniff prefix after this iteration
captureMagic(magicBytes, chunkBytes) ==
  IF Len(magicBytes) < MAGIC_LENGTH
  THEN concatUint8(magicBytes, sliceTo(chunkBytes, MAGIC_LENGTH - Len(magicBytes)))
  ELSE magicBytes

\* Line 185: state.buffer = contentRest.slice(chunkBytes.length)
dropRecorded(contentRest, chunkBytes) == sliceFrom(contentRest, Len(chunkBytes))

(***************************************************************************)
(* Requests and stores.                                                    *)
(***************************************************************************)
VARIABLES
  req,             \* the requests in flight: locals and position of each task
  bucket,          \* env.RESOURCE_BUCKET: r2 key -> stored object
  resource_files,  \* the rows of table resource_files
  resources,       \* the rows of table resources
  users,           \* table users: uuid -> resources_created
  nextUuid,        \* crypto.randomUUID(): the identifiers already handed out
  sniff,           \* a call of verifyMagic on its own: arguments and result
  packs            \* tables pack_invite_codes and pack_collaborators, and
                   \* packs_followed and follow_limit of table users

vars == <<req, bucket, resource_files, resources, users, nextUuid, sniff, packs>>

\* The tasks that can run at once
Procs == {1, 2}

\* The users that send requests
Users == {"u1", "u2"}

\* The resource the requests are about (a hat owned by u1), and a second
\* resource of u1 whose type, "custom", createResource stores when the type is
\* omitted
HAT_RESOURCE == <<49>>       \* resource_uuid "1"
CUSTOM_RESOURCE == <<50>>    \* resource_uuid "2"

InitialResources ==
  {[resource_uuid |-> HAT_RESOURCE, owner_uuid |-> "u1", type |-> "hat"],
   [resource_uuid |-> CUSTOM_RESOURCE, owner_uuid |-> "u1", type |-> "custom"]}

\* `${resource_uuid}/${file_uuid}`
r2KeyOf(resource_uuid, file_uuid) == <<resource_uuid, file_uuid>>

\* A task that has not started
IdleRequest ==
  [kind |-> "none", pc |-> "idle", requester |-> "", input |-> <<>>,
   body |-> <<>>, grain |-> 0, pos |-> 0,
   buffer |-> <<>>, decoder |-> NewTextDecoder, fieldIdx |-> 0, fields |-> <<>>,
   fileStarted |-> FALSE, bytesRead |-> 0, magicBytes |-> <<>>, fileBytes |-> <<>>,
   resource_uuid |-> <<>>, file_uuid |-> 0, cur |-> <<>>, todo |-> {},
   calls |-> <<>>, err |-> "", response |-> [status |-> 0, body |-> <<>>],
   alone |-> TRUE]

\* One part of a multipart body, and the body of an upload
Part(fieldName, value) ==
  boundary \o CRLF \o targetHeader(fieldName) \o CRLF \o CRLF \o value \o CRLF

\* The value an upload carries for the i-th field uploadFile reads
FieldValue(in, i) ==
  CASE i = 1 -> in.resource_uuid
    [] i = 2 -> in.content_type
    [] i = 3 -> in.file_directory
    [] OTHER -> in.file_name

\* The four field parts in the order in.order, the file part, the closing
\* boundary marker and what the client sends behind it.  The body ends in.cut
\* bytes early when the client stops sending.
BodyOf(in) ==
  LET part(k) == Part(FieldOrder[in.order[k]], FieldValue(in, in.order[k]))
      whole   == part(1) \o part(2) \o part(3) \o part(4)
                   \o Part(FILE, in.payload) \o boundary \o <<45, 45>> \o CRLF
                   \o in.tail
  IN  SubSeq(whole, 1, Len(whole) - in.cut)

\* reader.read() from position pos of the body: the sizes the next chunk can
\* have.  grain 0: any size; otherwise chunks of that size.
ChunkSizes(r) ==
  LET left == Len(r.body) - r.pos
  IN  IF r.grain = 0 THEN 1..left
      ELSE {IF r.grain < left THEN r.grain ELSE left}

\* What uploadFile returns when it ends normally: the function has no return
\* statement (lines 56-62)
UNDEFINED == "undefined"

uploadFileResult(r) == UNDEFINED

\* JSON.stringify of an object with one property: a property whose value is
\* undefined is left out
stringify(key, value) ==
  IF value = UNDEFINED THEN <<>> ELSE <<[key |-> key, value |-> value]>>

\* A variant of statusOf that knows no error message
statusOfUnknown(message) == 500

\* Lines 489-505 of handleUploadFile: the status of an error message
statusOf(message) ==
  IF message \in {"invalid_body", "missing_resource_uuid", "missing_file_directory",
                  "missing_file_name", "missing_content_type", "missing_file",
                  "file_type_mismatch"} THEN 400
  ELSE IF message \in {"forbidden_action", "forbidden_content_type",
                       "forbidden_file_directory"} THEN 403
  ELSE IF message = "resource_not_found" THEN 404
  ELSE IF message = "file_too_large" THEN 413
  ELSE 500

\* Lines 484-517 of handleUploadFile: the response to an upload that threw
\* err, or that returned result when err = ""
handleUploadFile(err, result) ==
  IF err # "" THEN [status |-> statusOf(err), body |-> stringify("error", err)]
  ELSE [status |-> 201, body |-> stringify("success", result)]

\* A request ends: with message err, or normally when err = "".  The response
\* is that of handleUploadFile; those of the other handlers are left out.
Ended(r, err) ==
  [r EXCEPT !.pc = "done", !.err = err,
            !.response = IF r.kind = "upload"
                         THEN handleUploadFile(err, uploadFileResult(r))
                         ELSE @]

\* The record of a store write the request issued
Called(r, op, key, ok) ==
  [r EXCEPT !.calls = Append(@, [op |-> op, key |-> key, ok |-> ok])]

(***************************************************************************)
(* uploadFile.                                                             *)
(***************************************************************************)
\* Lines 23-29: the reader, the buffer, and the first call of getMultipartField
StartUpload(p, requesters, inputs, grains) ==
  /\ req[p].pc = "idle"
  /\ \E requester \in requesters, in \in inputs, g \in grains :
       req' = [req EXCEPT ![p] =
                 [IdleRequest EXCEPT !.kind = "upload", !.pc = "field",
                                     !.requester = requester, !.input = in,
                                     !.body = BodyOf(in), !.grain = g,
                                     !.fieldIdx = 1]]
  /\ UNCHANGED <<bucket, resource_files, resources, users, nextUuid, sniff, packs>>

\* A variant of fieldRead that returns a value that is empty
fieldReadAnyValue(r, value, rest) ==
  [r EXCEPT !.buffer = rest, !.fields = Append(@, value),
            !.decoder = NewTextDecoder,
            !.fieldIdx = IF @ = Len(FieldOrder) THEN @ ELSE @ + 1,
            !.pc = IF r.fieldIdx = Len(FieldOrder) THEN "fetchResource" ELSE "field"]

\* A variant of fieldRead that leaves the buffer as it was searched
fieldReadRewinding(r, value, rest) ==
  IF value = <<>> THEN Ended(r, "missing_" \o FieldOrder[r.fieldIdx].name)
  ELSE [r EXCEPT !.fields = Append(@, value),
                 !.decoder = NewTextDecoder,
                 !.fieldIdx = IF @ = Len(FieldOrder) THEN @ ELSE @ + 1,
                 !.pc = IF r.fieldIdx = Len(FieldOrder) THEN "fetchResource" ELSE "field"]

\* After getMultipartField returned value for field fieldIdx: the next call
\* (with its own TextDecoder), or fetchResource after the fourth
fieldRead(r, value, rest) ==
  IF value = <<>> THEN Ended([r EXCEPT !.buffer = rest],
                             "missing_" \o FieldOrder[r.fieldIdx].name)
  ELSE [r EXCEPT !.buffer = rest, !.fields = Append(@, value),
                 !.decoder = NewTextDecoder,
                 !.fieldIdx = IF @ = Len(FieldOrder) THEN @ ELSE @ + 1,
                 !.pc = IF r.fieldIdx = Len(FieldOrder) THEN "fetchResource" ELSE "field"]

\* The message of the error reader.read() rejects with when the body stream
\* fails (the client is gone): the platform's own
STREAM_ERROR == "stream_error"

\* Lines 109-114 and 193-198: reader.read() delivered the next n bytes of the
\* body, which are decoded and appended to the buffer
\* A read that delivers a chunk and leaves the stream where it was
readChunkRepeating(r, n) ==
  LET dec == decodeStream(r.decoder, SubSeq(r.body, r.pos + 1, r.pos + n))
  IN  [r EXCEPT !.buffer = @ \o dec.out, !.decoder = dec.d]

readChunk(r, n) ==
  LET dec == decodeStream(r.decoder, SubSeq(r.body, r.pos + 1, r.pos + n))
  IN  [r EXCEPT !.buffer = @ \o dec.out, !.decoder = dec.d, !.pos = @ + n]

\* One iteration of the loop of getMultipartField (lines 84-115) up to the
\* read and, when the loop ends, lines 117-121.  pc "read": the iteration goes
\* on to reader.read().
getMultipartFieldScan(r) ==
  LET fieldName == FieldOrder[r.fieldIdx]
      hit       == scanField(r.buffer, fieldName)
      kept      == [r EXCEPT !.buffer = trimToWindow(@)]
  IN  IF hit.found THEN fieldRead(r, hit.value, hit.rest)
      ELSE IF r.pos = Len(r.body) THEN Ended(kept, "missing_" \o fieldName.name)
      ELSE [kept EXCEPT !.pc = "read"]

GetMultipartField(p) ==
  LET next == getMultipartFieldScan(req[p])
  IN  /\ req[p].pc = "field"
      /\ IF next.pc = "read"
         THEN \/ \E n \in ChunkSizes(next) :
                   req' = [req EXCEPT ![p] = readChunk([next EXCEPT !.pc = "field"], n)]
              \/ req' = [req EXCEPT ![p] = Ended(next, STREAM_ERROR)]
         ELSE req' = [req EXCEPT ![p] = next]
      /\ UNCHANGED <<bucket, resource_files, resources, users, nextUuid, sniff, packs>>

\* A variant of policyError that looks the directory up before the content
\* type
policyErrorDirectoryFirst(resource, requester_uuid, content_type, file_directory) ==
  IF resource = {} THEN "resource_not_found"
  ELSE LET res == CHOOSE x \in resource : TRUE IN
    IF res.owner_uuid # requester_uuid THEN "forbidden_action"
    ELSE IF res.type \notin DOMAIN RESOURCE_RULES THEN "undefined_resource_type"
    ELSE LET types == RESOURCE_RULES[res.type].allowed_content_types IN
      IF \A t \in DOMAIN types : file_directory \notin types[t].allowed_directories
        THEN "forbidden_file_directory"
      ELSE IF content_type \notin DOMAIN types THEN "forbidden_content_type"
      ELSE IF file_directory \notin types[content_type].allowed_directories
        THEN "forbidden_file_directory"
      ELSE ""

\* A variant of policyError that leaves the owner check out
policyErrorAnyRequester(resource, requester_uuid, content_type, file_directory) ==
  IF resource = {} THEN "resource_not_found"
  ELSE LET res == CHOOSE x \in resource : TRUE IN
    IF res.type \notin DOMAIN RESOURCE_RULES THEN "undefined_resource_type"
    ELSE LET rules == RESOURCE_RULES[res.type] IN
      IF content_type \notin DOMAIN rules.allowed_content_types
        THEN "forbidden_content_type"
      ELSE IF file_directory
                \notin rules.allowed_content_types[content_type].allowed_directories
        THEN "forbidden_file_directory"
      ELSE ""

\* Lines 34-46: the resource, its owner, and the policy table
policyError(resource, requester_uuid, content_type, file_directory) ==
  IF resource = {} THEN "resource_not_found"
  ELSE LET res == CHOOSE x \in resource : TRUE IN
    IF res.owner_uuid # requester_uuid THEN "forbidden_action"
    ELSE IF res.type \notin DOMAIN RESOURCE_RULES THEN "undefined_resource_type"
    ELSE LET rules == RESOURCE_RULES[res.type] IN
      IF content_type \notin DOMAIN rules.allowed_content_types
        THEN "forbidden_content_type"
      ELSE IF file_directory
                \notin rules.allowed_content_types[content_type].allowed_directories
        THEN "forbidden_file_directory"
      ELSE ""

\* fetchResource: SELECT * FROM resources WHERE resource_uuid = ?
fetchResource(resource_uuid) == {x \in resources : x.resource_uuid = resource_uuid}

\* The message of the error a failed statement of PACKSYNCR_DB throws where
\* the worker does not catch it: the store's own
D1_ERROR == "d1_error"

\* A variant of verifyExtracted that leaves out the comparison with the
\* declared type
verifyExtractedUnchecked(t) ==
  IF ~t.fileStarted THEN Ended(t, "missing_" \o FILE.name)
  ELSE [t EXCEPT !.pc = "put"]

\* A variant of verifyExtracted that does not ask whether the file part was
\* found
verifyExtractedUnstarted(t) ==
  IF ~verifyMagic(t.fields[2], t.magicBytes) THEN Ended(t, "file_type_mismatch")
  ELSE [t EXCEPT !.pc = "put"]

\* Lines 201-211 of extractAndVerifyFile, after the loop: the file was found,
\* and its sniff prefix matches the declared content type
verifyExtracted(t) ==
  IF ~t.fileStarted THEN Ended(t, "missing_" \o FILE.name)
  ELSE IF ~verifyMagic(t.fields[2], t.magicBytes) THEN Ended(t, "file_type_mismatch")
  ELSE [t EXCEPT !.pc = "put"]

\* One iteration of the loop of extractAndVerifyFile (lines 137-199) up to the
\* read and, when the stream is done, lines 201-211.  pc "read": the iteration
\* goes on to reader.read().
extractAndVerifyFileScan(r) ==
  LET loc        == locateFile(r.buffer, r.fileStarted)
      chunkBytes == encode(chunkTextOf(loc.contentRest))
      s == IF loc.started
           THEN [r EXCEPT !.fileStarted = TRUE,
                          !.magicBytes = captureMagic(@, chunkBytes),
                          !.bytesRead = @ + Len(chunkBytes)]
           ELSE r
  IN  IF s.bytesRead > MAX_FILE_SIZE THEN Ended(s, "file_too_large")
      ELSE
        LET t == IF loc.started
                 THEN [s EXCEPT !.fileBytes = @ \o chunkBytes,
                                !.buffer = trimToWindow(
                                             dropRecorded(loc.contentRest, chunkBytes))]
                 ELSE [s EXCEPT !.buffer = trimToWindow(@)]
        IN  IF r.pos < Len(r.body) THEN [t EXCEPT !.pc = "read"]
            ELSE verifyExtracted(t)

ExtractAndVerifyFile(p) ==
  LET next == extractAndVerifyFileScan(req[p])
  IN  /\ req[p].pc = "file"
      /\ IF next.pc = "read"
         THEN \/ \E n \in ChunkSizes(next) :
                   req' = [req EXCEPT ![p] = readChunk([next EXCEPT !.pc = "file"], n)]
              \/ req' = [req EXCEPT ![p] = Ended(next, STREAM_ERROR)]
         ELSE req' = [req EXCEPT ![p] = next]
      /\ UNCHANGED <<bucket, resource_files, resources, users, nextUuid, sniff, packs>>

\* A variant of afterCheck that enters the loop of extractAndVerifyFile before
\* it throws the error of the checks
afterCheckExtracting(r, err) ==
  IF err # ""
  THEN Ended(extractAndVerifyFileScan([r EXCEPT !.pc = "file",
                                                !.decoder = NewTextDecoder]), err)
  ELSE [r EXCEPT !.pc = "file", !.decoder = NewTextDecoder]

\* Lines 36-54: the error of the checks is thrown, or extractAndVerifyFile is
\* called with a TextDecoder of its own
afterCheck(r, err) ==
  IF err # "" THEN Ended(r, err)
  ELSE [r EXCEPT !.pc = "file", !.decoder = NewTextDecoder]

\* Lines 34-49: fetchResource, whose statement can fail, and the checks
FetchResourceAndCheck(p) ==
  LET r   == req[p]
      err == policyError(fetchResource(r.fields[1]), r.requester,
                         r.fields[2], r.fields[3])
  IN  /\ r.pc = "fetchResource"
      /\ \E ok \in BOOLEAN :
           req' = [req EXCEPT ![p] =
                     IF ~ok THEN Ended(r, D1_ERROR) ELSE afterCheck(r, err)]
      /\ UNCHANGED <<bucket, resource_files, resources, users, nextUuid, sniff, packs>>

\* A variant of afterPut that goes to the compensating delete when the put
\* failed
afterPutCompensating(c, ok) == [c EXCEPT !.pc = IF ok THEN "insert" ELSE "rollback"]

\* Lines 262-268: the put returned, or threw and uploadFileToR2 throws
\* r2_upload_failed
afterPut(c, ok) ==
  IF ok THEN [c EXCEPT !.pc = "insert"] ELSE Ended(c, "r2_upload_failed")

\* Lines 257-268 of uploadFileToR2: the identifier, the key, and the blob put,
\* which succeeds (ok) or throws
R2Put(p) ==
  LET r   == req[p]
      key == r2KeyOf(r.fields[1], nextUuid)
  IN  /\ r.pc = "put"
      /\ nextUuid' = nextUuid + 1
      /\ \E ok \in BOOLEAN :
           /\ req' = [req EXCEPT ![p] =
                        afterPut(Called([r EXCEPT !.file_uuid = nextUuid],
                                        "put", key, ok), ok)]
           /\ bucket' = IF ok
                        THEN (key :> [body |-> r.fileBytes, contentType |-> r.fields[2]])
                               @@ bucket
                        ELSE bucket
      /\ UNCHANGED <<resource_files, resources, users, sniff, packs>>

\* The row uploadFileToR2 inserts (created_at and updated_at are left out)
rowOf(r) ==
  [resource_uuid |-> r.fields[1], file_uuid |-> r.file_uuid,
   file_directory |-> r.fields[3], file_name |-> r.fields[4],
   r2_key |-> r2KeyOf(r.fields[1], r.file_uuid), content_type |-> r.fields[2],
   uploaded_by |-> r.requester]

\* Lines 270-295: the insert into resource_files, which succeeds or throws
D1Insert(p) ==
  LET r == req[p]
  IN  /\ r.pc = "insert"
      /\ \E ok \in BOOLEAN :
           /\ req' = [req EXCEPT ![p] =
                        LET c == Called(r, "insert", rowOf(r).r2_key, ok)
                        IN  IF ok THEN Ended(c, "") ELSE [c EXCEPT !.pc = "rollback"]]
           /\ resource_files' = IF ok THEN resource_files \cup {rowOf(r)}
                                ELSE resource_files
      /\ UNCHANGED <<bucket, resources, users, nextUuid, sniff, packs>>

\* The message of the error a failed RESOURCE_BUCKET.delete throws: the
\* store's own, none of the worker's
R2_DELETE_ERROR == "r2_delete_error"

\* A variant of rollbackOutcome that tries the insert again after the delete
rollbackOutcomeRetrying(r, key, ok) ==
  [Called(r, "delete", key, ok) EXCEPT !.pc = "insert"]

\* Lines 296-298: the catch block.  The delete is awaited inside it, so when
\* the delete throws, its error leaves uploadFileToR2 in place of
\* d1_upload_failed.
rollbackOutcome(r, key, ok) ==
  Ended(Called(r, "delete", key, ok), IF ok THEN "d1_upload_failed" ELSE R2_DELETE_ERROR)

\* A variant of bucketDelete that leaves the object in place
bucketKeep(key) == bucket

\* The bucket without the object under key (deleting an absent key succeeds)
bucketDelete(key) == [k \in DOMAIN bucket \ {key} |-> bucket[k]]

\* A variant of rollbackKey that names the blob by the file alone
rollbackKeyOfFile(r) == r2KeyOf(<<>>, r.file_uuid)

\* Line 297: the key the compensating delete is given, r2Key
rollbackKey(r) == r2KeyOf(r.fields[1], r.file_uuid)

R2Rollback(p) ==
  LET r   == req[p]
      key == rollbackKey(r)
  IN  /\ r.pc = "rollback"
      /\ \E ok \in BOOLEAN :
           /\ req' = [req EXCEPT ![p] = rollbackOutcome(r, key, ok)]
           /\ bucket' = IF ok THEN bucketDelete(key) ELSE bucket
      /\ UNCHANGED <<resource_files, resources, users, nextUuid, sniff, packs>>

(***************************************************************************)
(* deleteFile, and deleteResource with deleteResourceFiles.                *)
(***************************************************************************)
\* handleDeleteFile calls deleteFile(env, requester_uuid, resource_uuid, file_uuid)
StartDeleteFile(p) ==
  /\ req[p].pc = "idle"
  /\ \E requester \in Users,
        file_uuid \in {f.file_uuid : f \in resource_files} \cup {0} :
       req' = [req EXCEPT ![p] =
                 [IdleRequest EXCEPT !.kind = "deleteFile", !.pc = "fetchFile",
                                     !.requester = requester,
                                     !.resource_uuid = HAT_RESOURCE,
                                     !.file_uuid = file_uuid]]
  /\ UNCHANGED <<bucket, resource_files, resources, users, nextUuid, sniff, packs>>

\* fetchFile: SELECT * FROM resource_files WHERE resource_uuid = ? AND file_uuid = ?
fetchFile(resource_uuid, file_uuid) ==
  {f \in resource_files : f.resource_uuid = resource_uuid /\ f.file_uuid = file_uuid}

\* Lines 306-311 of deleteFile
FetchFile(p) ==
  LET r    == req[p]
      file == fetchFile(r.resource_uuid, r.file_uuid)
  IN  /\ r.pc = "fetchFile"
      /\ \E ok \in BOOLEAN :
           req' = [req EXCEPT ![p] =
                     IF ~ok THEN Ended(r, D1_ERROR)
                     ELSE IF file = {} THEN Ended(r, "file_not_found")
                     ELSE LET f == CHOOSE x \in file : TRUE IN
                       IF f.uploaded_by # r.requester THEN Ended(r, "forbidden_action")
                       ELSE [r EXCEPT !.cur = f, !.pc = "r2delete"]]
      /\ UNCHANGED <<bucket, resource_files, resources, users, nextUuid, sniff, packs>>

\* A variant of afterBlobDelete that goes on to the row whatever the blob
\* delete did
afterBlobDeleteIgnored(c, ok) == [c EXCEPT !.pc = "d1delete"]

\* Lines 335-339: the blob delete returned, or threw and deleteFileFromR2
\* throws r2_delete_failed
afterBlobDelete(c, ok) ==
  IF ok THEN [c EXCEPT !.pc = "d1delete"] ELSE Ended(c, "r2_delete_failed")

\* Lines 334-339 of deleteFileFromR2: the blob delete, which succeeds or throws
DeleteBlob(p) ==
  LET r == req[p]
  IN  /\ r.pc = "r2delete"
      /\ \E ok \in BOOLEAN :
           /\ req' = [req EXCEPT ![p] =
                        afterBlobDelete(Called(r, "delete", r.cur.r2_key, ok), ok)]
           /\ bucket' = IF ok THEN bucketDelete(r.cur.r2_key) ELSE bucket
      /\ UNCHANGED <<resource_files, resources, users, nextUuid, sniff, packs>>

\* A variant of afterFileDeleted whose sweep leaves the files of the resource
\* out
afterFileDeletedNoSweep(r, nextFile) ==
  IF r.kind = "deleteFile" THEN Ended(r, "")
  ELSE [r EXCEPT !.cur = <<>>, !.todo = {}, !.pc = "deleteResourceRow"]

\* After deleteFileFromR2 returned: deleteFile is done; the loop of
\* deleteResourceFiles (lines 367-373) takes the next file, and deleteResource
\* goes on to the resources row after the last
afterFileDeleted(r, nextFile) ==
  IF r.kind = "deleteFile" THEN Ended(r, "")
  ELSE IF r.todo = {} THEN [r EXCEPT !.cur = <<>>, !.pc = "deleteResourceRow"]
  ELSE [r EXCEPT !.cur = nextFile, !.todo = @ \ {nextFile}, !.pc = "r2delete"]

\* Lines 341-349 of deleteFileFromR2: the row delete, which succeeds or throws
DeleteRow(p) ==
  LET r == req[p]
  IN  /\ r.pc = "d1delete"
      /\ \E ok \in BOOLEAN, nextFile \in (IF r.todo = {} THEN {<<>>} ELSE r.todo) :
           /\ req' = [req EXCEPT ![p] =
                        LET c == Called(r, "deleteRow", r.cur.r2_key, ok)
                        IN  IF ok THEN afterFileDeleted(c, nextFile)
                            ELSE Ended(c, "d1_delete_failed")]
           /\ resource_files' =
                IF ok THEN resource_files \ fetchFile(r.cur.resource_uuid, r.cur.file_uuid)
                ELSE resource_files
      /\ UNCHANGED <<bucket, resources, users, nextUuid, sniff, packs>>

\* handleDeleteResource calls deleteResource(env, resource_uuid, requester_uuid)
StartDeleteResource(p) ==
  /\ req[p].pc = "idle"
  /\ \E requester \in Users :
       req' = [req EXCEPT ![p] =
                 [IdleRequest EXCEPT !.kind = "deleteResource", !.pc = "getResource",
                                     !.requester = requester,
                                     !.resource_uuid = HAT_RESOURCE]]
  /\ UNCHANGED <<bucket, resource_files, resources, users, nextUuid, sniff, packs>>

\* Lines 110-119 of deleteResource
GetResource(p) ==
  LET r        == req[p]
      resource == fetchResource(r.resource_uuid)
  IN  /\ r.pc = "getResource"
      /\ \E ok \in BOOLEAN :
           req' = [req EXCEPT ![p] =
                     IF ~ok THEN Ended(r, D1_ERROR)
                     ELSE IF resource = {} THEN Ended(r, "resource_not_found")
                     ELSE IF (CHOOSE x \in resource : TRUE).owner_uuid # r.requester
                       THEN Ended(r, "forbidden_action")
                     ELSE [r EXCEPT !.pc = "listFiles"]]
      /\ UNCHANGED <<bucket, resource_files, resources, users, nextUuid, sniff, packs>>

\* Lines 356-364 of deleteResourceFiles: the files of the resource, as the
\* SELECT finds them; the loop takes them in the order of the result, which is
\* any order
ListResourceFiles(p) ==
  LET r     == req[p]
      files == {f \in resource_files : f.resource_uuid = r.resource_uuid}
  IN  /\ r.pc = "listFiles"
      /\ \E ok \in BOOLEAN, first \in (IF files = {} THEN {<<>>} ELSE files) :
           req' = [req EXCEPT ![p] =
                     IF ~ok THEN Ended(r, D1_ERROR)
                     ELSE afterFileDeleted([r EXCEPT !.todo = files], first)]
      /\ UNCHANGED <<bucket, resource_files, resources, users, nextUuid, sniff, packs>>

\* Lines 128-136 of deleteResource: the resources row
DeleteResourceRow(p) ==
  LET r == req[p]
  IN  /\ r.pc = "deleteResourceRow"
      /\ \E ok \in BOOLEAN :
           /\ req' = [req EXCEPT ![p] =
                        IF ok THEN [r EXCEPT !.pc = "decrement"]
                        ELSE Ended(r, "resource_delete_failed")]
           /\ resources' =
                IF ok THEN {x \in resources : ~(/\ x.resource_uuid = r.resource_uuid
                                                /\ x.owner_uuid = r.requester)}
                ELSE resources
      /\ UNCHANGED <<bucket, resource_files, users, nextUuid, sniff, packs>>

\* Lines 138-143 of deleteResource: the owner's resources_created
DecrementResourcesCreated(p) ==
  LET r == req[p]
  IN  /\ r.pc = "decrement"
      /\ \E ok \in BOOLEAN :
           /\ req' = [req EXCEPT ![p] = Ended(r, IF ok THEN "" ELSE D1_ERROR)]
           /\ users' = IF ok /\ users[r.requester] > 0
                       THEN [users EXCEPT ![r.requester] = @ - 1]
                       ELSE users
      /\ UNCHANGED <<bucket, resource_files, resources, nextUuid, sniff, packs>>

(***************************************************************************)
(* handleCreateResource and createResource.                                *)
(***************************************************************************)
\* const RESOURCE_TYPES = ["hat"]
RESOURCE_TYPES == {"hat"}

\* users.resources_created before any request, and users.resources_limit:
\* each user is one resource short of the limit
InitialCreated == [u \in Users |-> IF u = "u1" THEN 2 ELSE 0]
resources_limit == [u \in Users |-> InitialCreated[u] + 1]

\* The text of the n-th identifier crypto.randomUUID() hands out
uuidText(n) == <<48 + n>>

\* No other create-resource request is in flight
NoOtherCreate(p) ==
  \A q \in Procs \ {p} :
    req[q].kind = "createResource" => req[q].pc \in {"idle", "done"}

\* handleCreateResource, lines 94-126: the requester and the type of the body
\* (undefined when the body has none); the name is a valid one.  alone records
\* whether the request starts while no other create-resource request runs.
StartCreateResource(p) ==
  /\ req[p].pc = "idle"
  /\ \E requester \in Users, type \in {UNDEFINED, "hat", "cape"} :
       req' = [req EXCEPT ![p] =
                 [IdleRequest EXCEPT !.kind = "createResource", !.pc = "getUser",
                                     !.requester = requester, !.input = type,
                                     !.alone = NoOtherCreate(p)]]
  /\ UNCHANGED <<bucket, resource_files, resources, users, nextUuid, sniff, packs>>

\* A variant of limitReached that lets a user at the limit create
limitReachedBeyond(resources_created, limit) == resources_created > limit

\* Line 141: user.resources_created >= user.resources_limit
limitReached(resources_created, limit) == resources_created >= limit

\* Lines 128-146 of handleCreateResource, the SELECT of the user and the limit
\* check, and lines 18-30 of createResource, the identifier and the rules
GetUser(p) ==
  LET r == req[p]
  IN  /\ r.pc = "getUser"
      /\ \E ok \in BOOLEAN :
           /\ req' = [req EXCEPT ![p] =
                IF ~ok THEN Ended(r, D1_ERROR)
                ELSE IF limitReached(users[r.requester], resources_limit[r.requester])
                  THEN Ended(r, "resource_limit_reached")
                ELSE IF r.input # UNDEFINED /\ r.input \notin RESOURCE_TYPES
                  THEN Ended(r, "invalid_resource_type")
                ELSE [r EXCEPT !.pc = "insertResource",
                               !.resource_uuid = uuidText(nextUuid)]]
           /\ nextUuid' = IF ok /\ ~limitReached(users[r.requester],
                                                  resources_limit[r.requester])
                          THEN nextUuid + 1 ELSE nextUuid
      /\ UNCHANGED <<bucket, resource_files, resources, users, sniff, packs>>

\* Line 45: type ?? "custom"
storedType(type) == IF type = UNDEFINED THEN "custom" ELSE type

\* Lines 32-50 of createResource: the insert into resources
InsertResource(p) ==
  LET r == req[p]
  IN  /\ r.pc = "insertResource"
      /\ \E ok \in BOOLEAN :
           /\ req' = [req EXCEPT ![p] =
                        IF ok THEN [r EXCEPT !.pc = "increment"]
                        ELSE Ended(r, D1_ERROR)]
           /\ resources' =
                IF ok THEN resources \cup {[resource_uuid |-> r.resource_uuid,
                                            owner_uuid |-> r.requester,
                                            type |-> storedType(r.input)]}
                ELSE resources
      /\ UNCHANGED <<bucket, resource_files, users, nextUuid, sniff, packs>>

\* Lines 52-58 of createResource: the owner's resources_created
IncrementResourcesCreated(p) ==
  LET r == req[p]
  IN  /\ r.pc = "increment"
      /\ \E ok \in BOOLEAN :
           /\ req' = [req EXCEPT ![p] = Ended(r, IF ok THEN "" ELSE D1_ERROR)]
           /\ users' = IF ok THEN [users EXCEPT ![r.requester] = @ + 1] ELSE users
      /\ UNCHANGED <<bucket, resource_files, resources, nextUuid, sniff, packs>>

(***************************************************************************)
(* redeemPackInvite (pack-handler/invites.js).  Every await is a step.      *)
(***************************************************************************)
ROLE_PRIORITY == [follower |-> 1, collaborator |-> 2, admin |-> 3]

\* max_uses and expires_at of an invite created without the option
UNLIMITED == -1

\* Math.floor(Date.now() / 1000) of the requests
Now == 1

Packs == {"k1", "k2"}

\* Rows as createPackInvite inserts them, uses = 0: an admin invite for one
\* use, a collaborator invite for two uses, an invite whose duration is over,
\* and a follower invite to another pack
InitialInvites ==
  {[invite_code |-> "p-1", pack_uuid |-> "k1", role |-> "admin",
    expires_at |-> UNLIMITED, max_uses |-> 1, uses |-> 0],
   [invite_code |-> "p-2", pack_uuid |-> "k1", role |-> "collaborator",
    expires_at |-> UNLIMITED, max_uses |-> 2, uses |-> 0],
   [invite_code |-> "p-3", pack_uuid |-> "k1", role |-> "follower",
    expires_at |-> 0, max_uses |-> UNLIMITED, uses |-> 0],
   [invite_code |-> "p-4", pack_uuid |-> "k2", role |-> "follower",
    expires_at |-> UNLIMITED, max_uses |-> UNLIMITED, uses |-> 0]}

InviteCodes == {i.invite_code : i \in InitialInvites} \cup {"p-0"}

\* u2 follows pack k1 and is at the follow limit
InitialCollaborators ==
  {[pack_uuid |-> "k1", user_uuid |-> "u2", role |-> "follower"]}

InitialPacks ==
  [pack_invite_codes  |-> InitialInvites,
   pack_collaborators |-> InitialCollaborators,
   packs_followed     |-> [u \in Users |-> IF u = "u2" THEN 1 ELSE 0],
   follow_limit       |-> [u \in Users |-> IF u = "u2" THEN 1 ELSE 2]]

StartRedeemPackInvite(p) ==
  /\ req[p].pc = "idle"
  /\ \E requester \in Users, invite_code \in InviteCodes :
       req' = [req EXCEPT ![p] =
                 [IdleRequest EXCEPT !.kind = "redeemPackInvite", !.pc = "getInvite",
                                     !.requester = requester,
                                     !.input = invite_code]]
  /\ UNCHANGED <<bucket, resource_files, resources, users, nextUuid, sniff, packs>>

\* Lines 105-125: the invite is read once; an invite that is expired or used
\* up is deleted before the error is thrown
GetInvite(p) ==
  LET r      == req[p]
      found  == {i \in packs.pack_invite_codes : i.invite_code = r.input}
      invite == CHOOSE i \in found : TRUE
  IN  /\ r.pc = "getInvite"
      /\ \E ok \in BOOLEAN :
           req' = [req EXCEPT ![p] =
                     IF ~ok THEN Ended(r, D1_ERROR)
                     ELSE IF found = {} THEN Ended(r, "invite_not_found")
                     ELSE IF invite.expires_at # UNLIMITED /\ invite.expires_at < Now
                       THEN [r EXCEPT !.cur = invite, !.pc = "deleteExpired"]
                     ELSE IF invite.max_uses # UNLIMITED
                             /\ invite.uses >= invite.max_uses
                       THEN [r EXCEPT !.cur = invite, !.pc = "deleteUsedUp"]
                     ELSE [r EXCEPT !.cur = invite, !.pc = "getExisting"]]
      /\ UNCHANGED <<bucket, resource_files, resources, users, nextUuid, sniff, packs>>

\* The row of pack_collaborators for a pack and a user, as a set
existingRole(pack_uuid, user_uuid) ==
  {c \in packs.pack_collaborators :
     c.pack_uuid = pack_uuid /\ c.user_uuid = user_uuid}

\* The test of line 136 that keeps a role at or above the invite's
roleKept(existing, invite_role) ==
  ROLE_PRIORITY[existing] >= ROLE_PRIORITY[invite_role]

\* Lines 128-142: the requester's role in the pack is read once
GetExisting(p) ==
  LET r        == req[p]
      existing == existingRole(r.cur.pack_uuid, r.requester)
  IN  /\ r.pc = "getExisting"
      /\ \E ok \in BOOLEAN :
           req' = [req EXCEPT ![p] =
                     IF ~ok THEN Ended(r, D1_ERROR)
                     ELSE IF existing = {} THEN [r EXCEPT !.pc = "getFollower"]
                     ELSE IF roleKept((CHOOSE c \in existing : TRUE).role, r.cur.role)
                       THEN Ended(r, "")
                     ELSE [r EXCEPT !.pc = "insertCollaborator"]]
      /\ UNCHANGED <<bucket, resource_files, resources, users, nextUuid, sniff, packs>>

\* Lines 144-155: packs_followed and follow_limit of the requester
GetFollower(p) ==
  LET r == req[p]
  IN  /\ r.pc = "getFollower"
      /\ \E ok \in BOOLEAN :
           req' = [req EXCEPT ![p] =
                     IF ~ok THEN Ended(r, D1_ERROR)
                     ELSE IF r.requester \notin DOMAIN packs.packs_followed
                       THEN Ended(r, "user_not_found")
                     ELSE IF packs.packs_followed[r.requester]
                               >= packs.follow_limit[r.requester]
                       THEN Ended(r, "follow_limit_reached")
                     ELSE [r EXCEPT !.pc = "incrementFollowed"]]
      /\ UNCHANGED <<bucket, resource_files, resources, users, nextUuid, sniff, packs>>

\* Lines 158-166
IncrementPacksFollowed(p) ==
  LET r == req[p]
  IN  /\ r.pc = "incrementFollowed"
      /\ \E ok \in BOOLEAN :
           /\ req' = [req EXCEPT ![p] =
                        IF ok THEN [r EXCEPT !.pc = "insertCollaborator"]
                        ELSE Ended(r, "increment_follow_count_failed")]
           /\ packs' = IF ok
                       THEN [packs EXCEPT !.packs_followed[r.requester] = @ + 1]
                       ELSE packs
      /\ UNCHANGED <<bucket, resource_files, resources, users, nextUuid, sniff>>

\* INSERT OR REPLACE INTO pack_collaborators: the row of the pack and the
\* user, if there is one, gives way to the new row
insertOrReplace(rows, pack_uuid, user_uuid, role) ==
  {c \in rows : ~(c.pack_uuid = pack_uuid /\ c.user_uuid = user_uuid)}
    \cup {[pack_uuid |-> pack_uuid, user_uuid |-> user_uuid, role |-> role]}

\* The test of line 184, on the invite as it was read at the start
lastUse(invite) ==
  invite.max_uses # UNLIMITED /\ invite.uses + 1 >= invite.max_uses

\* Lines 170-186: the collaborator row is written with the invite's role
InsertCollaborator(p) ==
  LET r == req[p]
  IN  /\ r.pc = "insertCollaborator"
      /\ \E ok \in BOOLEAN :
           /\ req' = [req EXCEPT ![p] =
                        IF ok
                        THEN [Called(r, "insert_collaborator", r.input, TRUE)
                                EXCEPT !.pc = IF lastUse(r.cur) THEN "deleteConsumed"
                                              ELSE "incrementUses"]
                        ELSE Ended(Called(r, "insert_collaborator", r.input, FALSE),
                                   "redeem_failed")]
           /\ packs' = IF ok
                       THEN [packs EXCEPT !.pack_collaborators =
                               insertOrReplace(@, r.cur.pack_uuid, r.requester,
                                               r.cur.role)]
                       ELSE packs
      /\ UNCHANGED <<bucket, resource_files, resources, users, nextUuid, sniff>>

\* deleteInviteFromCode
deleteInviteFromCode(rows, invite_code) ==
  {i \in rows : i.invite_code # invite_code}

\* The error thrown after the delete of lines 117, 123 and 185
afterDelete(pc) ==
  IF pc = "deleteExpired" THEN "invite_expired"
  ELSE IF pc = "deleteUsedUp" THEN "invite_used_up"
  ELSE ""

\* Lines 117, 123, 185: await deleteInviteFromCode(env, invite_code)
DeleteInvite(p) ==
  LET r == req[p]
  IN  /\ r.pc \in {"deleteExpired", "deleteUsedUp", "deleteConsumed"}
      /\ \E ok \in BOOLEAN :
           /\ req' = [req EXCEPT ![p] =
                        Ended(r, IF ok THEN afterDelete(r.pc) ELSE D1_ERROR)]
           /\ packs' = IF ok
                       THEN [packs EXCEPT !.pack_invite_codes =
                               deleteInviteFromCode(@, r.input)]
                       ELSE packs
      /\ UNCHANGED <<bucket, resource_files, resources, users, nextUuid, sniff>>

\* Lines 188-192: UPDATE pack_invite_codes SET uses = uses + 1
IncrementUses(p) ==
  LET r == req[p]
  IN  /\ r.pc = "incrementUses"
      /\ \E ok \in BOOLEAN :
           /\ req' = [req EXCEPT ![p] = Ended(r, IF ok THEN "" ELSE D1_ERROR)]
           /\ packs' = IF ok
                       THEN [packs EXCEPT !.pack_invite_codes =
                               {IF i.invite_code = r.input
                                THEN [i EXCEPT !.uses = @ + 1] ELSE i : i \in @}]
                       ELSE packs
      /\ UNCHANGED <<bucket, resource_files, resources, users, nextUuid, sniff>>

\* No call of verifyMagic on its own
NoSniff == [contentType |-> <<>>, bytes |-> <<>>, pc |-> "none", result |-> FALSE]

(***************************************************************************)
(* The uploads that are sent.                                              *)
(***************************************************************************)
\* The longest file_name sent: longer than the window leaves room for
MaxNameLen == 4
\* By how many bytes the largest payload sent exceeds MAX_FILE_SIZE
MaxExcess == 1

\* n times the byte b
Repeat(b, n) == [i \in 1..n |-> b]

Input(resource_uuid, content_type, file_directory, file_name, payload) ==
  [resource_uuid |-> resource_uuid, content_type |-> content_type,
   file_directory |-> file_directory, file_name |-> file_name, payload |-> payload,
   order |-> <<1, 2, 3, 4>>, tail |-> <<>>, cut |-> 0]

JsonInput(file_name, payload) ==
  Input(HAT_RESOURCE, APPLICATION_JSON, MODELS, file_name, payload)

PngInput(payload) == Input(HAT_RESOURCE, IMAGE_PNG, TEXTURES, <<97>>, payload)

\* The payloads: JSON texts "{}", "{xx..." up to and beyond the size ceiling,
\* the same behind a byte order mark, a text that is no JSON, the signature of
\* a PNG file
JsonOfSize(n) == <<123>> \o Repeat(120, n - 2) \o <<125>>
BOM == <<239, 187, 191>>
PNG_SIGNATURE == <<137, 80, 78, 71, 13, 10, 26, 10>>
NOT_JSON == <<120, 123>>

JsonPayloads ==
  {JsonOfSize(2), JsonOfSize(MAX_FILE_SIZE), BOM \o JsonOfSize(2)}
    \cup {JsonOfSize(MAX_FILE_SIZE + k) : k \in 1..MaxExcess}
    \cup {BOM \o JsonOfSize(MAX_FILE_SIZE + k - 3) : k \in 1..MaxExcess}

\* What the parts of a well-formed upload to the hat resource carry
ValidInputs ==
  {JsonInput(<<97>>, pl) : pl \in JsonPayloads}
    \cup {JsonInput(Repeat(97, MaxNameLen), JsonOfSize(2)), PngInput(PNG_SIGNATURE)}

\* Uploads whose payload is not of the declared type
MismatchedInputs == {JsonInput(<<97>>, NOT_JSON), PngInput(JsonOfSize(2))}

UploadInputs == ValidInputs \cup MismatchedInputs

(***************************************************************************)
(* One upload, its body cut into chunks in every way, every store write    *)
(* failing or not.                                                         *)
(***************************************************************************)
InitUpload ==
  /\ req = [p \in Procs |-> IdleRequest]
  /\ bucket = <<>>
  /\ resource_files = {}
  /\ resources = InitialResources
  /\ users = [u \in Users |-> IF u = "u1" THEN 2 ELSE 0]
  /\ nextUuid = 1
  /\ sniff = NoSniff
  /\ packs = InitialPacks

NextUpload ==
  \/ StartUpload(1, {"u1"}, UploadInputs, {0})
  \/ GetMultipartField(1)
  \/ FetchResourceAndCheck(1)
  \/ ExtractAndVerifyFile(1)
  \/ R2Put(1)
  \/ D1Insert(1)
  \/ R2Rollback(1)

SpecUpload == InitUpload /\ [][NextUpload]_vars

(***************************************************************************)
(* Requests running together: uploads, file deletes and resource deletes   *)
(* interleaved at their awaits, every store call failing or not.           *)
(***************************************************************************)
\* The size of the chunks the body streams of concurrent uploads deliver
ChunkSize == 64

\* The uploads sent concurrently: two JSON files and a PNG file
ConcurrentInputs ==
  {JsonInput(<<97>>, JsonOfSize(2)), JsonInput(<<98>>, <<91, 93>>),
   PngInput(PNG_SIGNATURE)}

\* A file uploaded earlier by u1: its row and its blob
STORED_FILE ==
  [resource_uuid |-> HAT_RESOURCE, file_uuid |-> 1, file_directory |-> MODELS,
   file_name |-> <<122>>, r2_key |-> r2KeyOf(HAT_RESOURCE, 1),
   content_type |-> APPLICATION_JSON, uploaded_by |-> "u1"]

Init ==
  /\ req = [p \in Procs |-> IdleRequest]
  /\ bucket = (STORED_FILE.r2_key :>
                 [body |-> <<91, 93, 13, 10>>, contentType |-> APPLICATION_JSON])
  /\ resource_files = {STORED_FILE}
  /\ resources = InitialResources
  /\ users = [u \in Users |-> IF u = "u1" THEN 2 ELSE 0]
  /\ nextUuid = 2
  /\ sniff = NoSniff
  /\ packs = InitialPacks

Next ==
  \E p \in Procs :
    \/ StartUpload(p, Users, ConcurrentInputs, {ChunkSize})
    \/ GetMultipartField(p)
    \/ FetchResourceAndCheck(p)
    \/ ExtractAndVerifyFile(p)
    \/ R2Put(p)
    \/ D1Insert(p)
    \/ R2Rollback(p)
    \/ StartDeleteFile(p)
    \/ FetchFile(p)
    \/ DeleteBlob(p)
    \/ DeleteRow(p)
    \/ StartDeleteResource(p)
    \/ GetResource(p)
    \/ ListResourceFiles(p)
    \/ DeleteResourceRow(p)
    \/ DecrementResourcesCreated(p)

Spec == Init /\ [][Next]_vars

(***************************************************************************)
(* Requests one at a time: an upload of any kind of body, before or after  *)
(* a file delete or a resource delete, every store call failing or not.    *)
(***************************************************************************)
\* A resource_uuid no row of resources has, and a directory no rule allows
UNKNOWN_RESOURCE == <<51>>   \* resource_uuid "3"
OTHER_DIRECTORY == <<111>>

\* Bodies for every resource, declared type and directory, with the payload "{}"
PolicyInputs ==
  {Input(resource_uuid, content_type, file_directory, <<97>>, JsonOfSize(2)) :
     resource_uuid \in {HAT_RESOURCE, CUSTOM_RESOURCE, UNKNOWN_RESOURCE},
     content_type \in {IMAGE_PNG, APPLICATION_JSON, TEXT_PLAIN},
     file_directory \in {TEXTURES, MODELS, OTHER_DIRECTORY}}

\* Bodies the client stopped sending: with the closing boundary marker
\* missing, in the middle of the payload, before the payload, and before the
\* header of the file_name part
TruncatedInputs ==
  {[JsonInput(<<97>>, JsonOfSize(2)) EXCEPT !.cut = c] : c \in {7, 10, 20, 40}}

\* A payload over the size ceiling, a file_name that is empty, and one that is
\* a space
RejectedInputs ==
  {JsonInput(<<97>>, JsonOfSize(MAX_FILE_SIZE + 1)), JsonInput(<<>>, JsonOfSize(2)),
   JsonInput(<<32>>, JsonOfSize(2))}

SerialInputs ==
  ConcurrentInputs \cup PolicyInputs \cup TruncatedInputs \cup RejectedInputs

\* No other request is running
Quiet(p) == \A q \in Procs \ {p} : req[q].pc \in {"idle", "done"}

NextSerial ==
  \/ Quiet(1) /\ StartUpload(1, Users, SerialInputs, {ChunkSize})
  \/ GetMultipartField(1)
  \/ FetchResourceAndCheck(1)
  \/ ExtractAndVerifyFile(1)
  \/ R2Put(1)
  \/ D1Insert(1)
  \/ R2Rollback(1)
  \/ Quiet(2) /\ StartDeleteFile(2)
  \/ FetchFile(2)
  \/ DeleteBlob(2)
  \/ DeleteRow(2)
  \/ Quiet(2) /\ StartDeleteResource(2)
  \/ GetResource(2)
  \/ ListResourceFiles(2)
  \/ DeleteResourceRow(2)
  \/ DecrementResourcesCreated(2)

SpecSerial == Init /\ [][NextSerial]_vars

(***************************************************************************)
(* One upload that runs on: the body stream delivers its chunks and ends,  *)
(* or rejects, and every store call returns or throws.                     *)
(***************************************************************************)
\* The stream delivers the body whole or in chunks of SmallChunk code units
SmallChunk == 7

NextUploadRunning ==
  \/ StartUpload(1, Users, SerialInputs, {SmallChunk, ChunkSize})
  \/ GetMultipartField(1)
  \/ FetchResourceAndCheck(1)
  \/ ExtractAndVerifyFile(1)
  \/ R2Put(1)
  \/ D1Insert(1)
  \/ R2Rollback(1)

\* The steps of the upload: the settling of each of its awaits
UploadStep ==
  \/ GetMultipartField(1)
  \/ FetchResourceAndCheck(1)
  \/ ExtractAndVerifyFile(1)
  \/ R2Put(1)
  \/ D1Insert(1)
  \/ R2Rollback(1)

\* The upload waits on a read of the stream or on a store call
Unfinished == req[1].kind = "upload" /\ req[1].pc # "done"

\* Every await of the upload settles: the weak fairness WF_vars(UploadStep),
\* with the enabling condition of UploadStep written as the state predicate
\* Unfinished (each step's guard is the position of the upload alone)
UploadRuns == []<>(~Unfinished) \/ []<><<UploadStep>>_vars

SpecUploadFair == Init /\ [][NextUploadRunning]_vars /\ UploadRuns

(***************************************************************************)
(* Resources created and deleted by requests running together, every       *)
(* store call failing or not.                                              *)
(***************************************************************************)
InitResources ==
  /\ req = [p \in Procs |-> IdleRequest]
  /\ bucket = (STORED_FILE.r2_key :>
                 [body |-> <<91, 93, 13, 10>>, contentType |-> APPLICATION_JSON])
  /\ resource_files = {STORED_FILE}
  /\ resources = InitialResources
  /\ users = InitialCreated
  /\ nextUuid = Cardinality(InitialResources) + 1
  /\ sniff = NoSniff
  /\ packs = InitialPacks

NextResources ==
  \E p \in Procs :
    \/ StartCreateResource(p)
    \/ GetUser(p)
    \/ InsertResource(p)
    \/ IncrementResourcesCreated(p)
    \/ StartDeleteResource(p)
    \/ GetResource(p)
    \/ ListResourceFiles(p)
    \/ DeleteBlob(p)
    \/ DeleteRow(p)
    \/ DeleteResourceRow(p)
    \/ DecrementResourcesCreated(p)

SpecResources == InitResources /\ [][NextResources]_vars

(***************************************************************************)
(* Requests that redeem pack invites, running together.                    *)
(***************************************************************************)
NextInvites ==
  \E p \in Procs :
    \/ StartRedeemPackInvite(p)
    \/ GetInvite(p)
    \/ GetExisting(p)
    \/ GetFollower(p)
    \/ IncrementPacksFollowed(p)
    \/ InsertCollaborator(p)
    \/ DeleteInvite(p)
    \/ IncrementUses(p)

SpecInvites == Init /\ [][NextInvites]_vars

(***************************************************************************)
(* The parser on its own: one body, cut into chunks in every way, up to    *)
(* the return of extractAndVerifyFile.                                     *)
(***************************************************************************)
\* What a client sends behind the closing boundary marker: an epilogue that,
\* with the marker, is longer than the window
EPILOGUE == Repeat(122, BUFFER_SIZE - 4)

\* The JSON text {e'} with U+00E9, which UTF-8 encodes in two bytes
TWO_BYTE_JSON == <<123, 195, 169, 125>>

\* The bodies parsed: the payload "{}"; the same with an epilogue; a payload
\* with a two-byte character; a payload longer than the sniff prefix; and a
\* body whose content_type part comes before its resource_uuid part
ParserInputs ==
  {JsonInput(<<97>>, JsonOfSize(2)),
   [JsonInput(<<97>>, JsonOfSize(2)) EXCEPT !.tail = EPILOGUE],
   JsonInput(<<97>>, TWO_BYTE_JSON),
   JsonInput(<<97>>, JsonOfSize(MAGIC_LENGTH + 2)),
   [JsonInput(<<97>>, JsonOfSize(2)) EXCEPT !.order = <<2, 1, 3, 4>>]}

NextExtract ==
  \/ StartUpload(1, {"u1"}, ParserInputs, {0})
  \/ GetMultipartField(1)
  \/ FetchResourceAndCheck(1)
  \/ ExtractAndVerifyFile(1)

SpecExtract == InitUpload /\ [][NextExtract]_vars

(***************************************************************************)
(* verifyMagic on its own, called on every declared type and prefix.       *)
(***************************************************************************)
\* The longest padding behind the first four bytes of a prefix
MaxPad == 4

\* The bytes the first four of a prefix are drawn from: the PNG signature's,
\* "{", "[" and a space; prefixes behind a byte order mark are added
SniffBytes == {137, 80, 78, 71, 123, 91, 32}

SniffPrefixes ==
  {h \o Repeat(120, k) :
     h \in UNION {[1..n -> SniffBytes] : n \in 0..4}, k \in 0..MaxPad}
    \cup {BOM \o <<b>> : b \in SniffBytes}

InitSniff ==
  /\ req = [p \in Procs |-> IdleRequest]
  /\ bucket = <<>>
  /\ resource_files = {}
  /\ resources = InitialResources
  /\ users = [u \in Users |-> IF u = "u1" THEN 2 ELSE 0]
  /\ nextUuid = 1
  /\ \E contentType \in {IMAGE_PNG, APPLICATION_JSON, TEXT_PLAIN},
        bytes \in SniffPrefixes :
       sniff = [contentType |-> contentType, bytes |-> bytes, pc |-> "call",
                result |-> FALSE]
  /\ packs = InitialPacks

VerifyMagic ==
  /\ sniff.pc = "call"
  /\ sniff' = [sniff EXCEPT !.pc = "done",
                            !.result = verifyMagic(sniff.contentType, sniff.bytes)]
  /\ UNCHANGED <<req, bucket, resource_files, resources, users, nextUuid, packs>>

NextSniff == VerifyMagic

SpecSniff == InitSniff /\ [][NextSniff]_vars

(***************************************************************************)
(* Properties.                                                             *)
(***************************************************************************)
\* The uploads among the requests
Uploads == {p \in Procs : req[p].kind = "upload"}

\* Request r issued the store write op, and it succeeded / failed
Succeeded(r, op) == \E i \in DOMAIN r.calls : r.calls[i].op = op /\ r.calls[i].ok
Failed(r, op) == \E i \in DOMAIN r.calls : r.calls[i].op = op /\ ~r.calls[i].ok

\* A row of resource_files carries this key
HasRow(rows, key) == \E f \in rows : f.r2_key = key

\* C1: when the blob put succeeded and the row insert failed, the upload has
\* issued, once it has ended, exactly one blob delete, for the key it wrote
\* (resource_uuid/file_uuid); it ended with an error, and no row carries the key.
\* Until then it is on its way to that delete.
C1_CompensatingDeleteIssued ==
  \A p \in Uploads :
    LET r == req[p] IN
    Succeeded(r, "put") /\ Failed(r, "insert") =>
      /\ r.pc \in {"rollback", "done"}
      /\ r.calls[1].key = r2KeyOf(r.fields[1], r.file_uuid)
      /\ ~HasRow(resource_files, r.calls[1].key)
      /\ r.pc = "done" =>
           /\ Len(r.calls) = 3
           /\ r.calls[3].op = "delete"
           /\ r.calls[3].key = r.calls[1].key
           /\ r.err # ""

C1_Witness ==
  \E p \in Uploads :
    /\ req[p].pc = "done"
    /\ Succeeded(req[p], "put")
    /\ Failed(req[p], "insert")
    /\ Len(req[p].calls) = 3

\* C2: when the row insert failed, the error the upload reports is
\* d1_upload_failed, whether the compensating delete succeeded or failed.
C2_MetadataFailureReported ==
  \A p \in Uploads :
    req[p].pc = "done" /\ Failed(req[p], "insert") => req[p].err = "d1_upload_failed"

\* C3: every row of resource_files has an r2_key that names a blob present in
\* the bucket.
C3_NoRowWithoutBlob == \A f \in resource_files : f.r2_key \in DOMAIN bucket

\* C4: at the step in which an upload that wrote a blob ends, the blob is in
\* the bucket without a row carrying its key only if the insert failed and the
\* compensating delete failed too; in every other outcome the blob and the row
\* are both there or both absent.
C4_OrphanOnlyAfterFailedCompensation ==
  [][\A p \in Procs :
       (/\ req[p].kind = "upload"
        /\ req[p].pc # "done"
        /\ req'[p].pc = "done"
        /\ req'[p].calls # <<>>) =>
         LET r    == req'[p]
             key  == r.calls[1].key
             blob == key \in DOMAIN bucket'
             row  == HasRow(resource_files', key)
         IN  IF Failed(r, "insert") /\ Failed(r, "delete")
             THEN blob /\ ~row
             ELSE blob = row]_vars

C4_Witness ==
  \E p \in Uploads :
    /\ req[p].pc = "done"
    /\ Failed(req[p], "insert")
    /\ Failed(req[p], "delete")
    /\ req[p].calls[1].key \in DOMAIN bucket
    /\ ~HasRow(resource_files, req[p].calls[1].key)

\* C5: an upload whose file part carries more than MAX_FILE_SIZE bytes never
\* comes to the blob put or the row insert, and when its body was read to the
\* end it fails with file_too_large.
C5_OversizeNeverStored ==
  \A p \in Uploads :
    LET r == req[p] IN
    Len(r.input.payload) > MAX_FILE_SIZE =>
      /\ r.pc \notin {"put", "insert", "rollback"}
      /\ r.calls = <<>>
      /\ r.pc = "done" /\ r.pos = Len(r.body) /\ r.fileStarted
           => r.err = "file_too_large"

\* The sniffer of the specification: image/png matches a prefix of at least 8
\* bytes that starts 0x89 0x50 0x4E 0x47; application/json matches a prefix
\* that, decoded and trimmed, starts with "{" or "["; nothing else matches
ReferenceSniffer(contentType, prefix) ==
  \/ /\ contentType = IMAGE_PNG
     /\ Len(prefix) >= 8
     /\ SubSeq(prefix, 1, 4) = <<137, 80, 78, 71>>
  \/ /\ contentType = APPLICATION_JSON
     /\ LET text == trim(decode(prefix))
        IN  text # <<>> /\ text[1] \in {123, 91}

\* The extraction of request r came to the comparison of the sniff prefix with
\* the declared type: the stream was read to its end, the file part was found
\* and is not too large
ReachedSniffing(r) ==
  /\ r.pc \in {"put", "insert", "rollback", "done"}
  /\ Len(r.fields) = 4
  /\ r.fileStarted
  /\ r.pos = Len(r.body)
  /\ r.err # "file_too_large"

\* C6: when the captured prefix does not match the declared type the upload
\* fails with file_type_mismatch, and such an upload has issued no blob put
\* and no row insert; a payload that starts with "{" and is declared
\* application/json is not rejected as a mismatch.
C6_MismatchRejectedBeforeStore ==
  \A p \in Uploads :
    LET r == req[p] IN
    /\ ReachedSniffing(r) /\ ~ReferenceSniffer(r.fields[2], r.magicBytes)
         => r.err = "file_type_mismatch" /\ r.pc = "done"
    /\ r.err = "file_type_mismatch" => r.calls = <<>>
    /\ (/\ r.input.content_type = APPLICATION_JSON
        /\ r.input.payload[1] = 123) => r.err # "file_type_mismatch"

C6_Witness ==
  \E p \in Uploads :
    /\ ReachedSniffing(req[p])
    /\ ~ReferenceSniffer(req[p].fields[2], req[p].magicBytes)
    /\ req[p].err = "file_type_mismatch"

\* C7: the result of verifyMagic is that of the sniffer of the specification,
\* for every declared type and prefix.
C7_VerifyMagicIsReference ==
  sniff.pc = "done" => (sniff.result <=> ReferenceSniffer(sniff.contentType, sniff.bytes))

C7_Witness ==
  /\ sniff.pc = "done"
  /\ sniff.result
  /\ sniff.contentType = IMAGE_PNG

\* C8: after an upload of a well-formed body with an allowed type and
\* directory has succeeded, the resource has exactly one row, the row's
\* content_type is the declared one, and the blob under the row's r2_key is
\* the payload, byte for byte.
C8_RoundTrip ==
  \A p \in Uploads :
    LET r == req[p] IN
    r.pc = "done" /\ r.err = "" /\ r.input \in ValidInputs =>
      /\ Cardinality(resource_files) = 1
      /\ \A f \in resource_files :
           /\ f.content_type = r.input.content_type
           /\ f.r2_key \in DOMAIN bucket
           /\ bucket[f.r2_key].body = r.input.payload

\* The values of the four fields of a body, in the order they are read
ValuesSent(in) ==
  <<in.resource_uuid, in.content_type, in.file_directory, in.file_name>>

\* C9: for a well-formed body, cut into chunks in any way, every call of
\* getMultipartField that ends returns the trimmed text between the blank line
\* of its part and the next boundary; none ends with missing_<fieldName>.
C9_FieldReturned ==
  \A p \in Uploads :
    LET r == req[p] IN
    r.input \in ValidInputs =>
      /\ \A i \in 1..Len(r.fields) : r.fields[i] = trim(ValuesSent(r.input)[i] \o CRLF)
      /\ r.err \notin {"missing_" \o FieldOrder[i].name : i \in 1..4}

\* No store call failed and no stream broke in request r
Undisturbed(r) ==
  /\ \A i \in DOMAIN r.calls : r.calls[i].ok
  /\ r.err \notin {D1_ERROR, STREAM_ERROR}

\* C10: two uploads of two different files by the owner to the same resource,
\* running together with no store failure, both succeed, create two rows with
\* distinct file_uuid and distinct r2_key, and the blob of each is the payload
\* of its own request and nothing else.
C10_ConcurrentUploadsSucceed ==
  \A p, q \in Uploads :
    LET r == req[p]
        t == req[q]
    IN  (/\ p # q
         /\ r.pc = "done" /\ t.pc = "done"
         /\ r.requester = "u1" /\ t.requester = "u1"
         /\ r.input # t.input
         /\ Undisturbed(r) /\ Undisturbed(t)) =>
          /\ r.err = "" /\ t.err = ""
          /\ r.file_uuid # t.file_uuid
          /\ rowOf(r) \in resource_files /\ rowOf(t) \in resource_files
          /\ rowOf(r).r2_key # rowOf(t).r2_key
          /\ bucket[rowOf(r).r2_key].body = r.input.payload
          /\ bucket[rowOf(t).r2_key].body = t.input.payload

\* C11: when the blob put failed, the upload has ended with r2_upload_failed,
\* which is what the response reports; the put is the only store write it
\* issued (no insert, no compensating delete), and no row carries the key.
C11_PutFailureReported ==
  \A p \in Uploads :
    LET r == req[p] IN
    Failed(r, "put") =>
      /\ r.pc = "done"
      /\ r.err = "r2_upload_failed"
      /\ r.response.body = <<[key |-> "error", value |-> "r2_upload_failed"]>>
      /\ Len(r.calls) = 1
      /\ ~HasRow(resource_files, r.calls[1].key)

C11_Witness ==
  \E p \in Uploads : req[p].pc = "done" /\ Failed(req[p], "put")

\* The requests that delete: deleteFile and deleteResource
Deletes == {p \in Procs : req[p].kind \in {"deleteFile", "deleteResource"}}

\* Request p takes a step from position pc
StepsFrom(p, pc) == req[p].pc = pc /\ req'[p] # req[p]

\* C12: the step of deleteResource's sweep in which a blob delete fails ends
\* the request with r2_delete_failed and changes no blob, no row of
\* resource_files, no row of resources and no resources_created counter; a
\* request that has ended takes no further step, so the resources row and the
\* counter are left to it, and the files not yet swept keep blob and row.
C12_SweepStopsAtFailedBlobDelete ==
  [][\A p \in Procs :
       /\ (/\ req[p].kind = "deleteResource"
           /\ StepsFrom(p, "r2delete")
           /\ Failed(req'[p], "delete")) =>
            /\ req'[p].pc = "done"
            /\ req'[p].err = "r2_delete_failed"
            /\ UNCHANGED <<bucket, resource_files, resources, users>>
       /\ req[p].pc = "done" => req'[p] = req[p]]_vars

\* A sweep that stopped at its second file or later
C12_Witness ==
  \E p \in Deletes :
    LET r == req[p] IN
    /\ r.kind = "deleteResource"
    /\ r.pc = "done"
    /\ r.err = "r2_delete_failed"
    /\ Len(r.calls) >= 3
    /\ r.cur \in resource_files
    /\ r.cur.r2_key \in DOMAIN bucket
    /\ fetchResource(r.resource_uuid) # {}

\* C14: a row of resource_files is removed only by a step of deleteFileFromR2
\* that follows a successful delete of the blob the row names; the step in
\* which the blob delete fails ends the request with r2_delete_failed and
\* changes neither the bucket nor resource_files.
C14_RowDeletedOnlyAfterBlob ==
  [][/\ \A p \in Deletes :
          /\ (StepsFrom(p, "r2delete") /\ Failed(req'[p], "delete")) =>
               /\ req'[p].pc = "done"
               /\ req'[p].err = "r2_delete_failed"
               /\ UNCHANGED <<bucket, resource_files>>
          /\ StepsFrom(p, "d1delete") =>
               req[p].calls[Len(req[p].calls)] =
                 [op |-> "delete", key |-> req[p].cur.r2_key, ok |-> TRUE]
     /\ \A f \in resource_files \ resource_files' :
          \E p \in Deletes : StepsFrom(p, "d1delete") /\ req[p].cur.r2_key = f.r2_key]_vars

\* A deleteFile that stopped at the blob delete, blob and row in place
C14_Witness ==
  \E p \in Deletes :
    LET r == req[p] IN
    /\ r.kind = "deleteFile"
    /\ r.pc = "done"
    /\ r.err = "r2_delete_failed"
    /\ r.cur \in resource_files
    /\ r.cur.r2_key \in DOMAIN bucket

\* A deleteResource that completed with no store failure
DeletedCleanly(r) ==
  /\ r.kind = "deleteResource"
  /\ r.pc = "done"
  /\ r.err = ""
  /\ \A i \in DOMAIN r.calls : r.calls[i].ok

\* The blob under key was written by an upload whose insert failed and whose
\* compensating delete failed too
Orphan(key) ==
  \E q \in Uploads :
    /\ Len(req[q].calls) = 3
    /\ req[q].calls[1] = [op |-> "put", key |-> key, ok |-> TRUE]
    /\ Failed(req[q], "insert")
    /\ Failed(req[q], "delete")

\* C13 as stated: after a deleteResource that ran alone and completed with no
\* store failure, no row of resource_files and no blob of the resource
\* remains, and the resources row is deleted.
C13_NothingOfResourceRemains ==
  \A p \in Deletes :
    LET r == req[p] IN
    DeletedCleanly(r) =>
      /\ \A f \in resource_files : f.resource_uuid # r.resource_uuid
      /\ \A key \in DOMAIN bucket : key[1] # r.resource_uuid
      /\ fetchResource(r.resource_uuid) = {}

\* C13, amended: after a deleteResource that ran alone and completed with no
\* store failure, no row of resource_files of the resource remains, the blob
\* of every row it had is deleted, and the resources row is deleted; a blob of
\* the resource that remains is an orphan, written by an upload whose insert
\* and compensating delete both failed, which no row names.
C13_FilesOfResourceDeleted ==
  \A p \in Deletes :
    LET r == req[p] IN
    DeletedCleanly(r) =>
      /\ \A f \in resource_files : f.resource_uuid # r.resource_uuid
      /\ \A i \in DOMAIN r.calls :
           r.calls[i].op = "delete" => r.calls[i].key \notin DOMAIN bucket
      /\ \A key \in DOMAIN bucket : key[1] = r.resource_uuid => Orphan(key)
      /\ fetchResource(r.resource_uuid) = {}

\* A sweep over two files that completed
C13_Witness ==
  \E p \in Deletes :
    /\ DeletedCleanly(req[p])
    /\ Cardinality({i \in DOMAIN req[p].calls : req[p].calls[i].op = "delete"}) = 2

\* The owners of the resource a body names, as createResource stored them
OwnersOf(resource_uuid) ==
  {x.owner_uuid : x \in {y \in InitialResources : y.resource_uuid = resource_uuid}}

\* C15: an upload whose requester is not the owner of the resource it names
\* never comes to the file extraction, the blob put or the row insert, and
\* when fetchResource found the resource it ends with forbidden_action.
C15_NonOwnerRejected ==
  \A p \in Uploads :
    LET r == req[p] IN
    OwnersOf(r.input.resource_uuid) # {} /\ r.requester \notin OwnersOf(r.input.resource_uuid) =>
      /\ r.pc \notin {"file", "put", "insert", "rollback"}
      /\ r.calls = <<>>
      /\ ~r.fileStarted /\ r.bytesRead = 0 /\ r.fileBytes = <<>>
      /\ (/\ r.pc = "done"
          /\ Len(r.fields) = 4
          /\ fetchResource(r.fields[1]) # {}
          /\ r.err # D1_ERROR) => r.err = "forbidden_action"

C15_Witness ==
  \E p \in Uploads :
    /\ req[p].requester \notin OwnersOf(req[p].input.resource_uuid)
    /\ req[p].pc = "done"
    /\ req[p].err = "forbidden_action"

\* C16: after an upload that wrote the blob and inserted the row, the response
\* has a 2xx status and its body carries the file_uuid of the inserted row.
C16_ResponseCarriesFileUuid ==
  \A p \in Uploads :
    LET r == req[p] IN
    r.pc = "done" /\ r.err = "" =>
      /\ r.response.status \in 200..299
      /\ Len(r.response.body) = 1
      /\ r.response.body[1].key = "success"
      /\ r.response.body[1].value = r.file_uuid

\* C18: the store writes of an upload are, in this order, at most one put, at
\* most one insert, issued after the put succeeded, and at most one delete,
\* issued after the insert failed.
C18_NoStoreWriteRetried ==
  \A p \in Uploads :
    LET c == req[p].calls
        n == Len(c)
    IN  /\ n <= 3
        /\ n >= 1 => c[1].op = "put"
        /\ n >= 2 => c[2].op = "insert" /\ c[1].ok
        /\ n = 3 => c[3].op = "delete" /\ ~c[2].ok

\* An upload all of whose later writes failed
C18_Witness ==
  \E p \in Uploads :
    /\ Len(req[p].calls) = 3
    /\ ~req[p].calls[3].ok

\* The messages of the errors of the client's input
ClientInputErrors ==
  {"missing_" \o FieldOrder[i].name : i \in 1..4}
    \cup {"missing_" \o FILE.name, "file_type_mismatch", "forbidden_content_type",
          "forbidden_file_directory", "file_too_large"}

\* C17: the response to a failed upload has a status fixed by the kind of the
\* error: 4xx for an error of the client's input, 403 for forbidden_action,
\* 404 for resource_not_found, and 500 when the put or the insert failed,
\* whatever the compensating delete did.
C17_StatusByErrorKind ==
  \A p \in Uploads :
    LET r == req[p] IN
    r.pc = "done" /\ r.err # "" =>
      /\ r.err \in ClientInputErrors => r.response.status \in 400..499
      /\ r.err = "forbidden_action" => r.response.status = 403
      /\ r.err = "resource_not_found" => r.response.status = 404
      /\ Failed(r, "put") \/ Failed(r, "insert") => r.response.status = 500

\* A response to an upload rejected for its size
C17_Witness ==
  \E p \in Uploads :
    /\ req[p].pc = "done"
    /\ req[p].err = "file_too_large"
    /\ req[p].response.status = 413

\* The body stream of request r ends before the boundary marker behind the
\* payload has arrived whole: more than the closing "--" and line break is
\* missing
ClosingMarkerMissing(r) == r.input.cut > Len(<<45, 45>> \o CRLF)

\* C19: an upload whose body stream ended, by a read error or by end of
\* stream, before the boundary marker that closes the file part was seen
\* issues no blob put and no row insert.
C19_IncompleteFileNeverCommitted ==
  \A p \in Uploads :
    LET r == req[p] IN
    r.err = STREAM_ERROR \/ ClosingMarkerMissing(r) =>
      /\ r.pc \notin {"put", "insert", "rollback"}
      /\ r.calls = <<>>

\* The policy check of the specification: the resource type, then the content
\* type under it, then the directory under the content type
PolicyReference(type, content_type, file_directory) ==
  IF type \notin {"hat"} THEN "undefined_resource_type"
  ELSE IF content_type \notin {IMAGE_PNG, APPLICATION_JSON} THEN "forbidden_content_type"
  ELSE IF file_directory # (IF content_type = IMAGE_PNG THEN TEXTURES ELSE MODELS)
    THEN "forbidden_file_directory"
  ELSE ""

BoundaryLocated(p) ==
  /\ req[p].kind = "upload" /\ req[p].pc = "file" /\ req[p].fileStarted
  /\ startsWith(req[p].buffer, boundary)
  /\ req[p].fileBytes = req[p].input.payload \o CRLF

\* C21: once the boundary marker that follows the payload has been located,
\* nothing more is appended to the payload extractAndVerifyFile records and
\* returns, however much follows the marker and however the body is cut into
\* chunks: neither the iteration that finds the marker at the head of the
\* buffer nor the one that follows it adds to fileBytes.
C21_NothingAppendedBehindBoundary ==
  [][\A p \in Procs :
       BoundaryLocated(p) /\ req'[p] # req[p]
       => /\ req'[p].fileBytes = req[p].fileBytes
          /\ req'[p].pc = "file"
               => extractAndVerifyFileScan(req'[p]).fileBytes = req[p].fileBytes]_vars

\* uploadFile on the body of in when the stream delivers it in one chunk,
\* no read and no statement failing: the request when extractAndVerifyFile
\* returned or an error was thrown
InOneChunk(in) ==
  LET r0 == [IdleRequest EXCEPT !.kind = "upload", !.pc = "field",
                                !.requester = "u1", !.input = in,
                                !.body = BodyOf(in), !.fieldIdx = 1]
      r1 == readChunk(r0, Len(r0.body))
      field(r) == IF r.pc = "field" THEN getMultipartFieldScan(r) ELSE r
      r5 == field(field(field(field(r1))))
  IN  IF r5.pc = "fetchResource"
      THEN extractAndVerifyFileScan([r5 EXCEPT !.pc = "file",
                                               !.decoder = NewTextDecoder])
      ELSE r5

\* C22: the payload extractAndVerifyFile returns for a body is the same for
\* every way of cutting the body into chunks: it is the payload returned when
\* the body arrives in one chunk, also when the closing boundary marker is
\* split across two chunks.
C22_PayloadIndependentOfChunking ==
  \A p \in Procs :
    req[p].kind = "upload" /\ req[p].pc = "put"
      => /\ InOneChunk(req[p].input).pc = "put"
         /\ req[p].fileBytes = InOneChunk(req[p].input).fileBytes

\* The header of the part named fieldName is in the buffer of the request r
HeaderLocated(r, fieldName) == indexOf(r.buffer, targetHeader(fieldName)) # -1

\* C23: an iteration of getMultipartField or extractAndVerifyFile that goes
\* on to read the next chunk does not discard a part header it has located:
\* when the header of the part looked for is in the buffer and its blank line
\* or terminating boundary has not arrived, the header is still in the buffer
\* after the trim.
C23_LocatedHeaderKept ==
  [][\A p \in Procs :
       /\ StepsFrom(p, "field") /\ req'[p].pc = "field"
            /\ req'[p].fieldIdx = req[p].fieldIdx
            /\ HeaderLocated(req[p], FieldOrder[req[p].fieldIdx])
          => HeaderLocated(req'[p], FieldOrder[req[p].fieldIdx])
       /\ StepsFrom(p, "file") /\ req'[p].pc = "file"
            /\ ~req'[p].fileStarted /\ HeaderLocated(req[p], FILE)
          => HeaderLocated(req'[p], FILE)]_vars

\* What is left of the buffer of r when exactly the text recorded by the
\* iteration is removed from it: nothing, or the text from the boundary on
LeftUnrecorded(r) ==
  LET contentRest == locateFile(r.buffer, r.fileStarted).contentRest
  IN  sliceFrom(contentRest, Len(chunkTextOf(contentRest)))

\* C24: an iteration of extractAndVerifyFile that records payload removes
\* from state.buffer exactly the text it recorded: the buffer it leaves (before
\* the next chunk is appended) is empty or begins at the boundary marker, also
\* when the text holds characters of more than one byte.
C24_RecordedTextRemoved ==
  [][\A p \in Procs :
       StepsFrom(p, "file") /\ req'[p].fileStarted
         /\ req'[p].err # "file_too_large"
       => startsWith(req'[p].buffer, trimToWindow(LeftUnrecorded(req[p])))]_vars

\* The errors of a field that uploadFile reads after resource_uuid
LaterFieldMissing == {"missing_" \o FieldOrder[i].name : i \in 2..4}

\* C25: an upload that names no resource of the store, or a resource its
\* requester does not own, never ends with missing_content_type,
\* missing_file_directory or missing_file_name: the resource is resolved and
\* its owner checked before those fields are read.
C25_ResourceCheckedBeforeLaterFields ==
  \A p \in Uploads :
    req[p].requester \notin OwnersOf(req[p].input.resource_uuid)
      => req[p].err \notin LaterFieldMissing

\* The errors of the three checks against RESOURCE_RULES
PolicyErrors ==
  {"undefined_resource_type", "forbidden_content_type", "forbidden_file_directory"}

\* The length of the four field parts of the body of in, and the number of
\* bytes of the body that come before the first byte of the file payload
FieldsLength(in) ==
  Len(Part(FieldOrder[1], FieldValue(in, 1))) + Len(Part(FieldOrder[2], FieldValue(in, 2)))
    + Len(Part(FieldOrder[3], FieldValue(in, 3))) + Len(Part(FieldOrder[4], FieldValue(in, 4)))

PayloadOffset(in) == FieldsLength(in) + Len(Part(FILE, <<>>)) - Len(CRLF)

\* Where in the body the chunk read last by r began, for chunks of one size
LastChunkStart(r) == ((r.pos - 1) \div r.grain) * r.grain

PositionOf(in, i) == CHOOSE k \in DOMAIN in.order : in.order[k] = i

\* The fields whose part lies earlier in the body of in than the part of a
\* field that uploadFile reads before them
BehindScanner(in) ==
  {i \in DOMAIN FieldOrder : \E j \in 1..(i - 1) : PositionOf(in, i) < PositionOf(in, j)}

\* C27: the scanner never rewinds.  A step in which getMultipartField returns
\* a field leaves of the buffer the text from a boundary marker on, all text
\* before it gone; and a field whose part lies earlier in the body than the
\* part of a field read before it is never returned: the call for it ends the
\* upload with missing_<field> when the stream is exhausted.
C27_ScannerNeverRewinds ==
  /\ [][\A p \in Procs :
          StepsFrom(p, "field") /\ Len(req'[p].fields) = Len(req[p].fields) + 1
          => /\ startsWith(req'[p].buffer, boundary)
             /\ Len(req'[p].buffer) < Len(req[p].buffer)
             /\ req'[p].buffer
                  = sliceFrom(req[p].buffer, Len(req[p].buffer) - Len(req'[p].buffer))
             /\ ~HeaderLocated(req'[p], FieldOrder[req[p].fieldIdx])]_vars
  /\ [](\A p \in Uploads : \A i \in BehindScanner(req[p].input) :
          /\ Len(req[p].fields) < i
          /\ req[p].pc = "done" /\ Len(req[p].fields) = i - 1
               /\ req[p].err # STREAM_ERROR
             => req[p].err = "missing_" \o FieldOrder[i].name)

C27_Witness ==
  \E p \in Uploads :
    /\ BehindScanner(req[p].input) = {2}
    /\ req[p].pc = "done" /\ req[p].pos = Len(req[p].body)
    /\ req[p].fields = <<req[p].input.resource_uuid>>
    /\ req[p].err = "missing_" \o CONTENT_TYPE.name

\* The parts the body of a request never completes: the fields whose header,
\* blank line and terminating boundary the whole body does not hold
Unmatched(r) == {i \in DOMAIN FieldOrder : ~scanField(r.body, FieldOrder[i]).found}

\* The errors uploadFile throws between the fourth field and the call of
\* extractAndVerifyFile, and that of a read that rejects
BeforeExtraction ==
  PolicyErrors \cup {"resource_not_found", "forbidden_action", D1_ERROR, STREAM_ERROR}

\* C28: when the body stream is exhausted before the part of a field has been
\* matched, the upload ends with missing_<field> for the first such field; when
\* it is exhausted while extractAndVerifyFile still awaits the header of the
\* file part, it ends with missing_file; in both cases no store write was made.
C28_ExhaustedBeforeMatch ==
  \A p \in Uploads :
    LET r == req[p] IN
    r.pc = "done" /\ r.err # STREAM_ERROR =>
      /\ Unmatched(r) # {} =>
            /\ r.err = "missing_" \o FieldOrder[SetMin(Unmatched(r))].name
            /\ Len(r.fields) = SetMin(Unmatched(r)) - 1
            /\ r.pos = Len(r.body) /\ r.calls = <<>>
      /\ (/\ Unmatched(r) = {} /\ Len(r.fields) = Len(FieldOrder)
          /\ ~locateFile(r.body, FALSE).started
          /\ r.err \notin BeforeExtraction)
           => /\ r.err = "missing_" \o FILE.name
              /\ ~r.fileStarted /\ r.fileBytes = <<>>
              /\ r.pos = Len(r.body) /\ r.calls = <<>>

\* The stream ended inside the header of the file part
C28_Witness ==
  \E p \in Uploads :
    /\ req[p].pc = "done" /\ req[p].pos = Len(req[p].body)
    /\ req[p].input.cut > 0
    /\ Len(req[p].fields) = Len(FieldOrder)
    /\ ~locateFile(req[p].body, FALSE).started
    /\ req[p].err = "missing_" \o FILE.name

\* C29: the counter bytesRead is the number of bytes recorded in fileBytes,
\* the recorded payload never exceeds MAX_FILE_SIZE, and an upload whose
\* payload has exactly MAX_FILE_SIZE bytes is not rejected as too large.
C29_SizeCeilingStrict ==
  \A p \in Uploads :
    LET r == req[p] IN
    /\ r.err # "file_too_large" => r.bytesRead = Len(r.fileBytes)
    /\ Len(r.fileBytes) <= MAX_FILE_SIZE
    /\ Len(r.input.payload) = MAX_FILE_SIZE => r.err # "file_too_large"

\* C30: the sniff prefix magicBytes has min(MAGIC_LENGTH, bytesRead) bytes, and
\* they are the first bytes of the payload recorded so far, however the payload
\* is split across chunks; it is never longer than MAGIC_LENGTH and no longer
\* changes once it holds MAGIC_LENGTH bytes.
C30_MagicIsPayloadPrefix ==
  /\ [](\A p \in Uploads :
          LET r == req[p] IN
          /\ Len(r.magicBytes)
               = (IF r.bytesRead < MAGIC_LENGTH THEN r.bytesRead ELSE MAGIC_LENGTH)
          /\ startsWith(r.magicBytes, sliceTo(r.fileBytes, MAGIC_LENGTH))
          /\ r.err # "file_too_large"
               => r.magicBytes = sliceTo(r.fileBytes, MAGIC_LENGTH))
  /\ [][\A p \in Procs :
          req[p].kind = "upload" /\ Len(req[p].magicBytes) = MAGIC_LENGTH
          => req'[p].magicBytes = req[p].magicBytes]_vars

\* The payload arrived in more than one chunk, the prefix was full before
\* the last of them
C30_Witness ==
  \E p \in Uploads :
    /\ req[p].pc = "file" /\ req[p].pos < Len(req[p].body)
    /\ Len(req[p].magicBytes) = MAGIC_LENGTH
    /\ Len(req[p].fileBytes) > MAGIC_LENGTH
    /\ Len(req[p].fileBytes) < Len(req[p].input.payload)
    /\ req[p].buffer # <<>>

\* The request as the iteration of p leaves it when it comes to reader.read()
AtRead(p) ==
  IF req[p].pc = "field" THEN getMultipartFieldScan(req[p])
  ELSE extractAndVerifyFileScan(req[p])

\* C31: whenever getMultipartField or extractAndVerifyFile issues a read to
\* the body stream, state.buffer holds at most BUFFER_SIZE characters; the
\* chunk read is appended to that buffer.
C31_BufferWithinWindowAtRead ==
  [][\A p \in Procs :
       req[p].kind = "upload" /\ req[p].pc \in {"field", "file"}
         /\ req'[p].pos > req[p].pos
       => /\ AtRead(p).pc = "read"
          /\ Len(AtRead(p).buffer) <= BUFFER_SIZE
          /\ startsWith(req'[p].buffer, AtRead(p).buffer)]_vars

\* An iteration found a buffer longer than the window and goes on to read
C31_Witness ==
  \E p \in Uploads :
    /\ req[p].pc \in {"field", "file"}
    /\ Len(req[p].buffer) > BUFFER_SIZE
    /\ AtRead(p).pc = "read"
    /\ Len(AtRead(p).buffer) = BUFFER_SIZE

\* C32: every row createResource inserted into resources has a type that is
\* a key of RESOURCE_RULES, also when the request gave no type, so the checks
\* of uploadFile never answer undefined_resource_type for such a resource,
\* whatever content type and directory its owner declares.
C32_CreatedTypeInPolicyTable ==
  \A x \in resources \ InitialResources :
    /\ x.type \in DOMAIN RESOURCE_RULES
    /\ \A content_type \in {IMAGE_PNG, APPLICATION_JSON, TEXT_PLAIN},
          file_directory \in {TEXTURES, MODELS} :
         policyError({x}, x.owner_uuid, content_type, file_directory)
           # "undefined_resource_type"

\* The create-resource requests of user u
CreatesOf(u) ==
  {p \in Procs : req[p].kind = "createResource" /\ req[p].requester = u}

\* C33: the limit check of handleCreateResource and the increment of
\* createResource are separate statements.  When every create-resource request
\* of a user started while no other was in flight, the user's
\* resources_created never exceeds resources_limit; two requests of the same
\* user that run together can both pass the check and both create a resource,
\* which takes the counter one above the limit and no further.
C33_LimitHeldByRequestsInTurn ==
  \A u \in Users :
    /\ (\A p \in CreatesOf(u) : req[p].alone) => users[u] <= resources_limit[u]
    /\ users[u] <= resources_limit[u] + Cardinality(Procs) - 1

\* Two create-resource requests of a user one short of the limit ran
\* together and both succeeded
C33_Witness ==
  \E u \in Users :
    /\ InitialCreated[u] = resources_limit[u] - 1
    /\ CreatesOf(u) = Procs
    /\ \A p \in Procs : req[p].pc = "done" /\ req[p].err = ""
    /\ users[u] > resources_limit[u]
    /\ Cardinality({x \in resources : x.owner_uuid = u}) > resources_limit[u]

\* C34: when an upload to a resource and a deleteResource of the same
\* resource have both finished, in whatever way their steps interleaved, and
\* deleteResource succeeded, the resource has no row in resource_files and no
\* blob in the bucket.
C34_DeletedResourceHasNoFiles ==
  \A p \in Procs, q \in Procs :
    (/\ req[p].kind = "upload" /\ req[p].pc = "done"
     /\ req[q].kind = "deleteResource" /\ req[q].pc = "done" /\ req[q].err = ""
     /\ req[p].input.resource_uuid = req[q].resource_uuid)
    => /\ \A f \in resource_files : f.resource_uuid # req[q].resource_uuid
       /\ \A key \in DOMAIN bucket : key[1] # req[q].resource_uuid

\* The fields whose value in the body of in is empty after trimming
EmptyFields(in) == {i \in DOMAIN FieldOrder : trim(FieldValue(in, i)) = <<>>}

\* C35: getMultipartField never returns the empty string.  When the body
\* holds all the parts and the value of a field is empty after trimming, the
\* call for the first such field ends the upload with missing_<field>, with the
\* buffer advanced to the boundary marker behind that part.
C35_EmptyValueIsMissing ==
  \A p \in Uploads :
    LET r == req[p] IN
    /\ \A i \in DOMAIN r.fields : r.fields[i] # <<>>
    /\ (/\ r.pc = "done" /\ r.err # STREAM_ERROR
        /\ Unmatched(r) = {} /\ EmptyFields(r.input) # {})
       => /\ r.err = "missing_" \o FieldOrder[SetMin(EmptyFields(r.input))].name
          /\ Len(r.fields) = SetMin(EmptyFields(r.input)) - 1
          /\ startsWith(r.buffer, boundary)
          /\ ~HeaderLocated(r, FieldOrder[SetMin(EmptyFields(r.input))])
          /\ r.calls = <<>>

\* The value of file_name was a space
C35_Witness ==
  \E p \in Uploads :
    /\ req[p].input.file_name = <<32>>
    /\ req[p].pc = "done" /\ req[p].err = "missing_" \o FILE_NAME.name
    /\ startsWith(req[p].buffer, boundary \o CRLF \o targetHeader(FILE))

\* C36: every upload over a body stream that delivers finitely many chunks and
\* then ends, with store calls that return or throw, comes to an end, with
\* success or with an error; and an iteration of the field loop or of the file
\* loop that does not leave its loop has read from the stream.
C36_UploadTerminates ==
  /\ \A p \in Procs : [](req[p].kind = "upload" => <>(req[p].pc = "done"))
  /\ [][\A p \in Procs :
          /\ StepsFrom(p, "field") /\ req'[p].pc = "field"
               /\ req'[p].fieldIdx = req[p].fieldIdx
             => req'[p].pos > req[p].pos
          /\ StepsFrom(p, "file") /\ req'[p].pc = "file"
             => req'[p].pos > req[p].pos]_vars

\* An upload whose body came in chunks of SmallChunk code units was read to
\* the end of the stream and ended with success
C36_Witness ==
  \E p \in Uploads :
    /\ req[p].grain = SmallChunk
    /\ req[p].pc = "done" /\ req[p].err = ""
    /\ req[p].pos = Len(req[p].body)
    /\ Len(req[p].body) > 2 * SmallChunk

\* The errors with which a request ends when a call to the database or to the
\* bucket has failed
StoreFailures ==
  {D1_ERROR, "resource_delete_failed", "r2_delete_failed", "d1_delete_failed"}

\* The resources rows that user u owns
ResourcesOwnedBy(u) == {x \in resources : x.owner_uuid = u}

\* C37: resources_created of a user is never negative, and once all
\* create-resource and delete-resource requests have finished, none of them
\* with a failed store call, it is the number of resources rows the user owns
C37_CounterMatchesRows ==
  /\ \A u \in Users : users[u] >= 0
  /\ (\A p \in Procs : /\ req[p].pc \in {"idle", "done"}
                        /\ req[p].err \notin StoreFailures)
       => \A u \in Users : users[u] = Cardinality(ResourcesOwnedBy(u))

\* The priority of the role a user holds in a pack, 0 for no role
PriorityIn(pack_uuid, user_uuid) ==
  LET held == existingRole(pack_uuid, user_uuid)
  IN  IF held = {} THEN 0
      ELSE SetMin({ROLE_PRIORITY[c.role] : c \in held})

\* The packs a user has a role in and had none in at the start
NewlyJoined(user_uuid) ==
  {k \in Packs : /\ existingRole(k, user_uuid) # {}
                 /\ \A c \in InitialCollaborators :
                      ~(c.pack_uuid = k /\ c.user_uuid = user_uuid)}

\* All redemptions have finished and no store call of theirs failed
AllRedeemed ==
  \A p \in Procs : /\ req[p].pc \in {"idle", "done"}
                   /\ req[p].err \notin StoreFailures \cup
                        {"redeem_failed", "increment_follow_count_failed"}

\* packs_followed has risen by at most one for each pack newly joined
FollowedOncePerPack ==
  \A u \in Users :
    packs.packs_followed[u]
      <= InitialPacks.packs_followed[u] + Cardinality(NewlyJoined(u))

\* C38: no step of a redemption lowers the priority of the role a user holds
\* in a pack, and once the redemptions have finished packs_followed has been
\* incremented at most once for each pack the user newly joined
C38_RoleNeverLowered ==
  [][/\ \A k \in Packs, u \in Users : PriorityIn(k, u)' >= PriorityIn(k, u)
     /\ AllRedeemed' => FollowedOncePerPack']_vars

\* The redemptions through an invite code that wrote a collaborator row
GrantsThrough(invite_code) ==
  {p \in Procs : /\ req[p].kind = "redeemPackInvite"
                 /\ req[p].input = invite_code
                 /\ Succeeded(req[p], "insert_collaborator")}

\* C39: for an invite with max_uses = N, N not -1, at most N redemptions
\* through its code write a collaborator row, the stored uses never exceed
\* max_uses, and once N redemptions have finished the invite row is gone
C39_AtMostMaxUses ==
  \A i \in InitialInvites :
    i.max_uses # UNLIMITED =>
      /\ Cardinality(GrantsThrough(i.invite_code)) <= i.max_uses
      /\ \A row \in packs.pack_invite_codes : row.uses <= row.max_uses
           \/ row.max_uses = UNLIMITED
      /\ (/\ Cardinality(GrantsThrough(i.invite_code)) >= i.max_uses
          /\ \A p \in GrantsThrough(i.invite_code) :
               req[p].pc = "done" /\ req[p].err = "")
         => \A row \in packs.pack_invite_codes : row.invite_code # i.invite_code
====
